---------------------------- MODULE Spec2Model ----------------------------
(***************************************************************************)
(* State-machine model of the shop backend (sdmhbilal/e-commerce-django):  *)
(* cart identity resolution and merge-on-login, the cart line handlers,    *)
(* the coupon rules and the checkout transaction, as request handlers      *)
(* running concurrently against one database.                              *)
(*                                                                         *)
(* Database semantics: every handler statement is one step.  A handler     *)
(* wrapped in transaction.atomic buffers its writes in tx[p] and applies   *)
(* them on commit (READ COMMITTED: other requests read committed rows       *)
(* only); select_for_update and every write take a row lock that is held   *)
(* to the end of the transaction, and a statement that needs a row locked  *)
(* by another transaction is not enabled until that transaction ends.      *)
(* Handlers that are not atomic commit every statement at once.            *)
(* Money is counted in cents.                                              *)
(***************************************************************************)
EXTENDS Integers, Naturals, Sequences, FiniteSets, TLC

\* ------------------------------------------------------------- bounds
NProcs == 2
NProducts == 2
MaxRequests == 2
MaxEdits == 1
MaxCartId == 3
MaxItemId == 5
MaxOrderId == 2
MaxQty == 2
MaxStock == 2

\* ------------------------------------------------------ program values
Null == 0 - 1
Anon == 0
NoCart == 0
NoToken == 0
NoCode == 0
BadCode == 9
MinOrderAmount == 200

Procs == 1 .. NProcs
Products == 1 .. NProducts
Users == {1}
Coupons == {1}
PriceSet == {100, 250}

VARIABLES
  now,          \* the clock read by timezone.now()
  product,      \* Product rows: [Products -> [price, stock_quantity]]
  coupon,       \* Coupon rows:  [Coupons -> record]
  cart,         \* committed Cart rows
  cartItem,     \* committed CartItem rows
  order,        \* committed Order rows
  orderItem,    \* committed OrderItem rows
  nextId,       \* the tables' id sequences: [cart, item, order]
  pc,           \* each request worker's position in its handler
  rq,           \* the request a worker is serving
  lv,           \* the handler's local variables
  tx,           \* the worker's open transaction: buffered writes and locks
  used,         \* requests and dashboard edits started so far
  touched,      \* history: what the current request has committed
  log,          \* history: the finished requests and their responses
  authUser,     \* User rows
  emailCode,    \* EmailVerificationCode rows
  emailChange,  \* EmailChangeRequest rows
  nextPk        \* the account tables' id sequences: [user, code, change]

acctVars == <<authUser, emailCode, emailChange, nextPk>>

vars == <<now, product, coupon, cart, cartItem, order, orderItem, nextId,
          pc, rq, lv, tx, used, touched, log, acctVars>>

dbVars == <<now, product, coupon, cart, cartItem, order, orderItem, acctVars>>

\* --------------------------------------------------------- pure helpers
MinId(S) == CHOOSE r \in S : \A s \in S : r.id <= s.id

Min(a, b) == IF a <= b THEN a ELSE b

\* a quantize that drops the digits beyond the last place
RoundDown(n, d) == n \div d

\* Decimal.quantize with the default context: n / d rounded half to even
RoundHalfEven(n, d) ==
  LET q == n \div d
      r == n % d
  IN  IF 2 * r < d THEN q
      ELSE IF 2 * r > d THEN q + 1
      ELSE IF q % 2 = 0 THEN q ELSE q + 1

\* ------------------------------------------------------ rows and views
Ids(S) == {r.id : r \in S}

\* committed rows overlaid with a transaction's buffered puts and deletes
Overlay(rows, put, del) ==
  {r \in rows : r.id \notin del /\ r.id \notin Ids(put)} \cup put

EmptyW ==
  [cartPut |-> {}, itemPut |-> {}, itemDel |-> {}, stock |-> {},
   orders |-> {}, orderItems |-> {}, coupons |-> {}, locks |-> {}]

NoTx == [active |-> FALSE, w |-> EmptyW]

\* the later write set b on top of the earlier a
Join(a, b) ==
  [cartPut |-> Overlay(a.cartPut, b.cartPut, {}),
   itemPut |-> Overlay(a.itemPut, b.itemPut, b.itemDel),
   itemDel |-> a.itemDel \cup b.itemDel,
   stock |-> {s \in a.stock : \A t \in b.stock : t.id # s.id} \cup b.stock,
   orders |-> a.orders \cup b.orders,
   orderItems |-> a.orderItems \cup b.orderItems,
   coupons |-> {s \in a.coupons : \A t \in b.coupons : t.id # s.id} \cup b.coupons,
   locks |-> a.locks \cup b.locks]

\* what request p reads: committed rows and its own uncommitted writes
CartsOf(p) == Overlay(cart, tx[p].w.cartPut, {})
ItemsOf(p) == Overlay(cartItem, tx[p].w.itemPut, tx[p].w.itemDel)

OpenCarts(C) == {c \in C : ~c.checked_out}

\* cart.items
Lines(I, c) == {r \in I : r.cart = c}

\* a sum that prices every line at its product's current price
RECURSIVE SumCurrent(_)
SumCurrent(S) ==
  IF S = {} THEN 0
  ELSE LET r == CHOOSE x \in S : TRUE
       IN  product[r.product].price * r.quantity + SumCurrent(S \ {r})

RECURSIVE SumAmount(_)
SumAmount(S) ==
  IF S = {} THEN 0
  ELSE LET r == CHOOSE x \in S : TRUE
       IN  r.unit_price * r.quantity + SumAmount(S \ {r})

RECURSIVE SumQuantity(_)
SumQuantity(S) ==
  IF S = {} THEN 0
  ELSE LET r == CHOOSE x \in S : TRUE
       IN  r.quantity + SumQuantity(S \ {r})

\* Cart.subtotal: the sum of unit_price * quantity, quantized to cents
\* (amounts are whole cents, so the final quantize is exact)
Subtotal(I, c) == RoundHalfEven(SumAmount(Lines(I, c)) * 100, 100)

\* Cart.total_items
TotalItems(I, c) == SumQuantity(Lines(I, c))

\* a CartItem table without the unique index
NoUnique(I, c, pr) == TRUE

\* CartItem.Meta.unique_together = [("cart", "product")]: may a row with this
\* key be inserted beside the rows I
UniqueOk(I, c, pr) == \A r \in I : ~(r.cart = c /\ r.product = pr)

\* ---------------------------------------------------------- row locks
ItemLocks(S) == {<<"item", r.id>> : r \in S}
\* a select_for_update that leaves the joined product rows unlocked
NoProductLocks(S) == {}
ProductLocks(S) == {<<"product", r.product>> : r \in S}

\* no other transaction holds one of the locks L
CanLock(p, L) == \A q \in Procs \ {p} : tx[q].w.locks \cap L = {}

\* another transaction has an uncommitted CartItem insert for this key
PendingKey(p, c, pr) ==
  \E q \in Procs \ {p} : \E r \in tx[q].w.itemPut :
     r.cart = c /\ r.product = pr /\ r.id \notin Ids(cartItem)

\* ------------------------------------------------- applying write sets
Tags(p, w) ==
  (IF w.stock # {} THEN {"stock"} ELSE {})
  \cup (IF w.orders # {} \/ w.orderItems # {} THEN {"orders"} ELSE {})
  \cup (IF w.coupons # {} THEN {"coupon"} ELSE {})
  \cup (IF w.itemPut # {} \/ w.itemDel # {}
        THEN (IF pc[p] \in {"merge_wr", "merge_del"} THEN {"merge"} ELSE {"lines"})
        ELSE {})
  \cup (IF \E c \in w.cartPut : c.id \in Ids(cart) THEN {"cart"} ELSE {})
  \cup (IF \E c \in w.cartPut : c.id \notin Ids(cart) THEN {"new_cart"} ELSE {})

ApplyDb(p, w) ==
  /\ cart' = Overlay(cart, w.cartPut, {})
  /\ cartItem' = Overlay(cartItem, w.itemPut, w.itemDel)
  /\ product' = [pr \in DOMAIN product |->
        IF \E s \in w.stock : s.id = pr
        THEN [product[pr] EXCEPT
                !.stock_quantity = (CHOOSE s \in w.stock : s.id = pr).stock_quantity]
        ELSE product[pr]]
  /\ coupon' = [c \in Coupons |->
        IF \E s \in w.coupons : s.id = c
        THEN [coupon[c] EXCEPT
                !.times_used = (CHOOSE s \in w.coupons : s.id = c).times_used]
        ELSE coupon[c]]
  /\ order' = order \cup w.orders
  /\ orderItem' = orderItem \cup w.orderItems
  /\ now' = now
  /\ UNCHANGED acctVars
  /\ touched' = [touched EXCEPT ![p] = @ \cup Tags(p, w)]

\* transaction.atomic ends normally: COMMIT
CommitTx(p, w) ==
  /\ ApplyDb(p, Join(tx[p].w, w))
  /\ tx' = [tx EXCEPT ![p] = NoTx]

\* an exception that leaves the transaction's writes in place
RollbackKeeps(p, w) == CommitTx(p, w)

\* transaction.atomic ends by an exception: ROLLBACK
RollbackTx(p, w) ==
  /\ UNCHANGED <<dbVars, touched>>
  /\ tx' = [tx EXCEPT ![p] = NoTx]

\* one statement: buffered inside a transaction, committed at once outside
Stage(p, w) ==
  IF tx[p].active
  THEN /\ tx' = [tx EXCEPT ![p].w = Join(@, w)]
       /\ UNCHANGED <<dbVars, touched>>
  ELSE /\ ApplyDb(p, w)
       /\ UNCHANGED tx

\* ------------------------------------------------ requests and locals
NoRq ==
  [op |-> "none", user |-> Anon, token |-> NoToken, product |-> 0,
   quantity |-> 0, item |-> 0, code |-> NoCode,
   guest_full_name |-> "", guest_email |-> ""]

NoLv ==
  [cart |-> NoCart, guest |-> NoCart, todo |-> {}, existing |-> {},
   pr |-> {}, cp |-> {}, subtotal |-> 0, discount |-> 0, basis |-> 0]

\* the handlers wrapped in transaction.atomic as a whole
AtomicOps == {"add", "update"}

\* where a handler goes once its cart is resolved
Body(op) ==
  CASE op = "detail" -> "detail"
    [] op = "add" -> "add_validate"
    [] op = "update" -> "upd"
    [] op = "delete" -> "del"
    [] op = "checkout" -> "co_validate"
    [] op = "validate" -> "cv_lookup"

Goto(p, label, locals) ==
  /\ pc' = [pc EXCEPT ![p] = label]
  /\ lv' = [lv EXCEPT ![p] = locals]
  /\ UNCHANGED <<rq, log>>

\* the response is sent; log keeps the request, the response code, the cart it
\* resolved, the amounts it computed (basis: the subtotal that
\* compute_discount read) and what it committed
Finish(p, code) ==
  /\ pc' = [pc EXCEPT ![p] = "idle"]
  /\ log' = Append(log, [rq |-> rq[p], code |-> code, cart |-> lv[p].cart,
                         subtotal |-> lv[p].subtotal, discount |-> lv[p].discount,
                         basis |-> lv[p].basis,
                         touched |-> touched'[p]])
  /\ rq' = [rq EXCEPT ![p] = NoRq]
  /\ lv' = [lv EXCEPT ![p] = NoLv]

\* the foreign keys CartItem.product and OrderItem.product of the rows a
\* write set inserts point to Product rows
ForeignKeysOk(w) ==
  \A it \in w.itemPut \cup w.orderItems : it.product \in DOMAIN product

\* the handler returns a response (a return inside atomic commits); a commit
\* that a foreign key constraint refuses is an IntegrityError and a rollback
Respond(p, code, w) ==
  IF ForeignKeysOk(Join(tx[p].w, w))
  THEN /\ CommitTx(p, w)
       /\ Finish(p, code)
  ELSE /\ RollbackTx(p, w)
       /\ Finish(p, "server_error")

\* the handler raises: a transaction in progress is rolled back, statements
\* committed before it stay
RaiseAfter(p, code, w) ==
  /\ RollbackTx(p, w)
  /\ Finish(p, code)

Raise(p, code) == RaiseAfter(p, code, EmptyW)

\* ---------------------------------------------------------------- Init
CouponRow(type, value, limit) ==
  [discount_type |-> type, discount_value |-> value, start_at |-> 0,
   end_at |-> 2, minimum_cart_value |-> 0, usage_limit |-> limit,
   times_used |-> 0, is_enabled |-> TRUE, applicable_products |-> {}]

CartRow(i, u) ==
  [id |-> i, user |-> u, guest_token |-> i, checked_out |-> FALSE]

ItemRow(i, c, pr, q, price) ==
  [id |-> i, cart |-> c, product |-> pr, quantity |-> q, unit_price |-> price]

UserRow(i, username, email, active, first) ==
  [id |-> i, username |-> username, email |-> email, is_active |-> active,
   first_name |-> first]

\* one verified user, no code waiting
InitAccounts ==
  /\ authUser = {UserRow(1, "ann", "ann@x", TRUE, "Ann")}
  /\ emailCode = {}
  /\ emailChange = {}
  /\ nextPk = [user |-> 2, code |-> 1, change |-> 1]

InitProcs ==
  /\ pc = [p \in Procs |-> "idle"]
  /\ rq = [p \in Procs |-> NoRq]
  /\ lv = [p \in Procs |-> NoLv]
  /\ tx = [p \in Procs |-> NoTx]
  /\ touched = [p \in Procs |-> {}]
  /\ used = [requests |-> 0, edits |-> 0]
  /\ log = <<>>

\* product 1 costs 2.50 and has 2 in stock, the others cost 1.00 and have 1
InitProduct ==
  [pr \in Products |->
     IF pr = 1 THEN [price |-> 250, stock_quantity |-> 2]
               ELSE [price |-> 100, stock_quantity |-> 1]]

\* one guest cart holding one unit of product 1; user 1 has no cart yet; a
\* flat coupon of 1.50 that may be used once
Init ==
  /\ now = 1
  /\ product = InitProduct
  /\ coupon = [c \in Coupons |-> CouponRow("flat", 150, 1)]
  /\ cart = {CartRow(1, Anon)}
  /\ cartItem = {ItemRow(1, 1, 1, 1, 250)}
  /\ order = {}
  /\ orderItem = {}
  /\ nextId = [cart |-> 2, item |-> 2, order |-> 1]
  /\ InitProcs
  /\ InitAccounts

\* ------------------------------------------------------------- requests
Req(op, u, t, pr, q, i, k, g) ==
  [op |-> op, user |-> u, token |-> t, product |-> pr, quantity |-> q,
   item |-> i, code |-> k, guest_full_name |-> g[1], guest_email |-> g[2]]

\* the guest data of a checkout, <<full name, email>>: complete, without the
\* name, without the email; the other requests carry none
Named == <<"Guest", "guest@x">>
NoName == <<"", "guest@x">>
NoEmail == <<"Guest", "">>
NoGuest == <<"", "">>

Detail(u, t) == Req("detail", u, t, 0, 0, 0, NoCode, NoGuest)
Add(u, t, pr, q) == Req("add", u, t, pr, q, 0, NoCode, NoGuest)
Update(u, t, i, q) == Req("update", u, t, 0, q, i, NoCode, NoGuest)
Delete(u, t, i) == Req("delete", u, t, 0, 0, i, NoCode, NoGuest)
Checkout(u, t, k, g) == Req("checkout", u, t, 0, 0, 0, k, g)
Validate(u, t, k) == Req("validate", u, t, 0, 0, 0, k, NoGuest)

\* the requests offered to the workers: the guest holding token 1, and user 1
\* with and without that token
Requests ==
  {Detail(1, 1), Detail(Anon, NoToken)}
  \cup {Add(Anon, 1, pr, 1) : pr \in Products}
  \cup {Add(1, NoToken, 1, 1), Add(1, 1, 1, 0)}
  \cup {Update(Anon, 1, 1, q) : q \in {0, MaxQty}}
  \cup {Delete(Anon, 1, 1)}
  \cup {Checkout(Anon, 1, k, Named) : k \in {NoCode, BadCode} \cup Coupons}
  \cup {Checkout(Anon, 1, NoCode, g) : g \in {NoName, NoEmail}}
  \cup {Checkout(1, t, NoCode, Named) : t \in {NoToken, 1}}
  \cup {Checkout(1, 1, BadCode, Named)}
  \cup {Validate(Anon, 1, k) : k \in Coupons}

\* a request of the set R arrives and is taken by the first idle worker
StartFrom(p, R) ==
  /\ pc[p] = "idle"
  /\ \A q \in Procs : q < p => pc[q] # "idle"
  /\ used.requests < MaxRequests
  /\ \E r \in R :
       /\ rq' = [rq EXCEPT ![p] = r]
       /\ tx' = [tx EXCEPT ![p] = [active |-> r.op \in AtomicOps, w |-> EmptyW]]
  /\ pc' = [pc EXCEPT ![p] = "resolve"]
  /\ lv' = [lv EXCEPT ![p] = NoLv]
  /\ touched' = [touched EXCEPT ![p] = {}]
  /\ used' = [used EXCEPT !.requests = @ + 1]
  /\ UNCHANGED <<dbVars, nextId, log>>

Start(p) == StartFrom(p, Requests)

\* ----------------------------------------------------- _get_or_create_cart
\* Cart.objects.get_or_create(user=..., checked_out_at__isnull=True): the get
ResolveUser(p) ==
  /\ pc[p] = "resolve"
  /\ rq[p].user # Anon
  /\ LET open == {c \in OpenCarts(CartsOf(p)) : c.user = rq[p].user}
     IN  \/ /\ Cardinality(open) > 1          \* MultipleObjectsReturned
            /\ Raise(p, "server_error")
         \/ /\ Cardinality(open) = 1
            /\ Goto(p, "res_merge", [lv[p] EXCEPT !.cart = (CHOOSE c \in open : TRUE).id])
            /\ UNCHANGED <<dbVars, tx, touched>>
         \/ /\ open = {}
            /\ Goto(p, "res_create", lv[p])
            /\ UNCHANGED <<dbVars, tx, touched>>
  /\ UNCHANGED <<nextId, used>>

\* get_or_create: the create, after the get found no open cart
ResolveCreate(p) ==
  /\ pc[p] = "res_create"
  /\ nextId.cart <= MaxCartId
  /\ Stage(p, [EmptyW EXCEPT !.cartPut = {CartRow(nextId.cart, rq[p].user)}])
  /\ nextId' = [nextId EXCEPT !.cart = @ + 1]
  /\ Goto(p, "res_merge", [lv[p] EXCEPT !.cart = nextId.cart])
  /\ UNCHANGED used

\* the guest branch: the open cart of the presented token, or a new cart
ResolveGuest(p) ==
  /\ pc[p] = "resolve"
  /\ rq[p].user = Anon
  /\ LET found == {c \in OpenCarts(CartsOf(p)) :
                      rq[p].token # NoToken /\ c.guest_token = rq[p].token}
     IN  \/ /\ found # {}
            /\ Goto(p, Body(rq[p].op), [lv[p] EXCEPT !.cart = (CHOOSE c \in found : TRUE).id])
            /\ UNCHANGED <<dbVars, tx, touched, nextId>>
         \/ /\ found = {}
            /\ nextId.cart <= MaxCartId
            /\ Stage(p, [EmptyW EXCEPT !.cartPut = {CartRow(nextId.cart, Anon)}])
            /\ nextId' = [nextId EXCEPT !.cart = @ + 1]
            /\ Goto(p, Body(rq[p].op), [lv[p] EXCEPT !.cart = nextId.cart])
  /\ UNCHANGED used

\* the user cart is empty and the token names a non-empty open cart: merge
ResolveMerge(p) ==
  /\ pc[p] = "res_merge"
  /\ LET I == ItemsOf(p)
         found == {c \in OpenCarts(CartsOf(p)) :
                      rq[p].token # NoToken /\ c.guest_token = rq[p].token}
         g == (CHOOSE c \in found : TRUE).id
     IN  IF TotalItems(I, lv[p].cart) = 0 /\ found # {} /\ TotalItems(I, g) > 0
         THEN Goto(p, "merge_sel",
                   [lv[p] EXCEPT !.guest = g,
                      !.todo = {[id |-> it.id, product |-> it.product,
                                 quantity |-> it.quantity,
                                 price |-> product[it.product].price] :
                                it \in Lines(I, g)}])
         ELSE Goto(p, Body(rq[p].op), lv[p])
  /\ UNCHANGED <<dbVars, tx, touched, nextId, used>>

\* _merge_guest_cart_into_user_cart: user_cart.items.filter(product).first()
MergeSelect(p) ==
  /\ pc[p] = "merge_sel"
  /\ LET g == MinId(lv[p].todo)
         same == {it \in Lines(ItemsOf(p), lv[p].cart) : it.product = g.product}
     IN  Goto(p, "merge_wr",
              [lv[p] EXCEPT !.existing = IF same = {} THEN {} ELSE {MinId(same)}])
  /\ UNCHANGED <<dbVars, tx, touched, nextId, used>>

AfterMerge(p) ==
  LET rest == lv[p].todo \ {MinId(lv[p].todo)}
  IN  Goto(p, IF rest = {} THEN "merge_del" ELSE "merge_sel",
           [lv[p] EXCEPT !.todo = rest, !.existing = {}])

\* existing.save(update_fields=...) of the line read by MergeSelect
MergeUpdate(p) ==
  /\ pc[p] = "merge_wr"
  /\ lv[p].existing # {}
  /\ LET g == MinId(lv[p].todo)
         e == CHOOSE x \in lv[p].existing : TRUE
     IN  /\ CanLock(p, {<<"item", e.id>>})
         /\ \/ /\ e.id \in Ids(ItemsOf(p))
               /\ Stage(p, [EmptyW EXCEPT
                     !.itemPut = {[e EXCEPT !.quantity = e.quantity + g.quantity,
                                            !.unit_price = g.price]},
                     !.locks = {<<"item", e.id>>}])
               /\ AfterMerge(p)
            \/ /\ e.id \notin Ids(ItemsOf(p))      \* the UPDATE matches no row
               /\ Raise(p, "server_error")
  /\ UNCHANGED <<nextId, used>>

\* CartItem.objects.create(cart=user_cart, product=guest_item.product,
\* quantity=guest_item.quantity, unit_price=guest_item.product.price)
MergedLine(i, c, g) == ItemRow(i, c, g.product, g.quantity, g.price)

\* CartItem.objects.create(cart=user_cart, ...) under unique_together
MergeCreate(p) ==
  /\ pc[p] = "merge_wr"
  /\ lv[p].existing = {}
  /\ LET g == MinId(lv[p].todo)
     IN  /\ ~PendingKey(p, lv[p].cart, g.product)
         /\ \/ /\ UniqueOk(ItemsOf(p), lv[p].cart, g.product)
               /\ tx[p].active \/ g.product \in DOMAIN product
               /\ nextId.item <= MaxItemId
               /\ Stage(p, [EmptyW EXCEPT
                     !.itemPut = {MergedLine(nextId.item, lv[p].cart, g)},
                     !.locks = {<<"item", nextId.item>>}])
               /\ nextId' = [nextId EXCEPT !.item = @ + 1]
               /\ AfterMerge(p)
            \/ /\ \/ ~UniqueOk(ItemsOf(p), lv[p].cart, g.product)
                  \/ ~tx[p].active /\ g.product \notin DOMAIN product
               /\ Raise(p, "server_error")      \* IntegrityError
               /\ UNCHANGED nextId
  /\ UNCHANGED used

\* guest_cart.items.all().delete()
MergeDelete(p) ==
  /\ pc[p] = "merge_del"
  /\ LET gone == Lines(ItemsOf(p), lv[p].guest)
     IN  /\ CanLock(p, ItemLocks(gone))
         /\ Stage(p, [EmptyW EXCEPT !.itemDel = Ids(gone), !.locks = ItemLocks(gone)])
  /\ Goto(p, Body(rq[p].op), [lv[p] EXCEPT !.guest = NoCart])
  /\ UNCHANGED <<nextId, used>>

\* cart_detail: the resolved cart is serialized
CartDetail(p) ==
  /\ pc[p] = "detail"
  /\ Respond(p, "ok", EmptyW)
  /\ UNCHANGED <<nextId, used>>

\* ------------------------------------------------------------ cart lines
\* cart_item_add: CartItemSerializer.is_valid and the first stock check
AddValidate(p) ==
  /\ pc[p] = "add_validate"
  /\ LET r == rq[p]
         pr == product[r.product]
     IN  \/ /\ r.quantity < 1 \/ r.product \notin DOMAIN product
            /\ Raise(p, "bad_request")          \* ValidationError: rolled back
         \/ /\ r.quantity >= 1 /\ r.product \in DOMAIN product
            /\ r.quantity > pr.stock_quantity
            /\ Respond(p, "insufficient_stock", EmptyW)
         \/ /\ r.quantity >= 1 /\ r.product \in DOMAIN product
            /\ r.quantity <= pr.stock_quantity
            /\ Goto(p, "add_get",
                    [lv[p] EXCEPT !.pr = {[id |-> r.product, price |-> pr.price,
                                          stock_quantity |-> pr.stock_quantity]}])
            /\ UNCHANGED <<dbVars, tx, touched>>
  /\ UNCHANGED <<nextId, used>>

\* a get_or_create without select_for_update
AddNoLock(rows) == {}

\* the rows select_for_update() locks for the rest of the transaction
AddForUpdate(rows) == ItemLocks(rows)

\* select_for_update().get_or_create(cart, product): the get (again, after the
\* create met an IntegrityError)
AddGet(p) ==
  /\ pc[p] \in {"add_get", "add_get2"}
  /\ LET rows == {it \in Lines(ItemsOf(p), lv[p].cart) : it.product = rq[p].product}
     IN  \/ /\ rows = {}
            /\ pc[p] = "add_get"
            /\ Goto(p, "add_create", lv[p])
            /\ UNCHANGED <<dbVars, tx, touched>>
         \/ /\ rows = {}
            /\ pc[p] = "add_get2"             \* the IntegrityError is re-raised
            /\ Raise(p, "server_error")
         \/ /\ Cardinality(rows) > 1          \* MultipleObjectsReturned
            /\ Raise(p, "server_error")
         \/ /\ Cardinality(rows) = 1
            /\ CanLock(p, AddForUpdate(rows))
            /\ Stage(p, [EmptyW EXCEPT !.locks = AddForUpdate(rows)])
            /\ Goto(p, "add_save", [lv[p] EXCEPT !.existing = rows])
  /\ UNCHANGED <<nextId, used>>

\* an add that overwrites the quantity of the line
ReplacedQuantity(item, quantity) == quantity

\* the quantity the line gets when an add finds it present
AddedQuantity(item, quantity) == item.quantity + quantity

\* not created: the second stock check and item.save(update_fields=...)
AddSave(p) ==
  /\ pc[p] = "add_save"
  /\ LET pr == CHOOSE x \in lv[p].pr : TRUE
         item == CHOOSE it \in lv[p].existing : TRUE
         new_qty == AddedQuantity(item, rq[p].quantity)
     IN  IF new_qty > pr.stock_quantity
         THEN Respond(p, "insufficient_stock", EmptyW)
         ELSE /\ CanLock(p, {<<"item", item.id>>})
              /\ IF item.id \in Ids(ItemsOf(p))
                 THEN Respond(p, "ok", [EmptyW EXCEPT
                        !.itemPut = {[item EXCEPT !.quantity = new_qty,
                                                  !.unit_price = pr.price]}])
                 ELSE Raise(p, "server_error")   \* the UPDATE matches no row
  /\ UNCHANGED <<nextId, used>>

\* get_or_create: the create, in a savepoint, under unique_together
AddCreate(p) ==
  /\ pc[p] = "add_create"
  /\ LET r == rq[p]
         pr == CHOOSE x \in lv[p].pr : TRUE
     IN  /\ ~PendingKey(p, lv[p].cart, r.product)
         /\ \/ /\ UniqueOk(ItemsOf(p), lv[p].cart, r.product)
               /\ nextId.item <= MaxItemId
               /\ Respond(p, "ok", [EmptyW EXCEPT
                     !.itemPut = {ItemRow(nextId.item, lv[p].cart, r.product,
                                          r.quantity, pr.price)}])
               /\ nextId' = [nextId EXCEPT !.item = @ + 1]
            \/ /\ ~UniqueOk(ItemsOf(p), lv[p].cart, r.product)   \* IntegrityError
               /\ Goto(p, "add_get2", lv[p])
               /\ UNCHANGED <<dbVars, tx, touched, nextId>>
  /\ UNCHANGED used

\* an update that keeps the price the line was captured at
UpdatedQuantity(item, qty, pr) == [item EXCEPT !.quantity = qty]

\* item.quantity = qty; item.unit_price = item.product.price
UpdatedItem(item, qty, pr) == [item EXCEPT !.quantity = qty, !.unit_price = pr.price]

\* cart_item_update
CartItemUpdate(p) ==
  /\ pc[p] = "upd"
  /\ LET r == rq[p]
         rows == {it \in Lines(ItemsOf(p), lv[p].cart) : it.id = r.item}
         item == CHOOSE it \in rows : TRUE
         pr == product[item.product]
     IN  \/ /\ rows = {}
            /\ Respond(p, "not_found", EmptyW)
         \/ /\ rows # {}
            /\ CanLock(p, ItemLocks(rows) \cup ProductLocks(rows))
            /\ IF r.quantity < 1
               THEN Respond(p, "bad_request", EmptyW)
               ELSE IF r.quantity > pr.stock_quantity
               THEN Respond(p, "insufficient_stock", EmptyW)
               ELSE Respond(p, "ok", [EmptyW EXCEPT
                      !.itemPut = {UpdatedItem(item, r.quantity, pr)}])
  /\ UNCHANGED <<nextId, used>>

\* a delete whose filter matches no row
FilteredNone(I, c, i) == {}

\* CartItem.objects.filter(cart=cart, id=item_id)
FilteredItems(I, c, i) == {it \in Lines(I, c) : it.id = i}

\* cart_item_delete
CartItemDelete(p) ==
  /\ pc[p] = "del"
  /\ LET rows == FilteredItems(ItemsOf(p), lv[p].cart, rq[p].item)
     IN  /\ CanLock(p, ItemLocks(rows))
         /\ Respond(p, "ok", [EmptyW EXCEPT !.itemDel = Ids(rows)])
  /\ UNCHANGED <<nextId, used>>

\* ------------------------------------------------------------- dashboard
\* product_edit: ProductForm.save() with a price and a stock of at least 0
ProductEdit ==
  /\ used.edits < MaxEdits
  /\ \E pr \in DOMAIN product, price \in PriceSet, stock \in 0 .. MaxStock :
       /\ \A q \in Procs : <<"product", pr>> \notin tx[q].w.locks
       /\ product' = [product EXCEPT ![pr] = [price |-> price, stock_quantity |-> stock]]
  /\ used' = [used EXCEPT !.edits = @ + 1]
  /\ UNCHANGED <<now, coupon, cart, cartItem, order, orderItem, nextId,
                 pc, rq, lv, tx, touched, log, acctVars>>

\* a guard that looks at the order lines only
ReferencedByOrder(pr) == \E it \in orderItem : it.product = pr

\* on_delete=PROTECT on CartItem.product and OrderItem.product
Referenced(pr) == \E it \in cartItem \cup orderItem : it.product = pr

\* product_delete: product.delete() is refused with ProtectedError while a cart
\* line or an order line references the product (a reference committed after
\* the collector has looked is refused by the foreign key constraint), and
\* deletes the row otherwise
ProductDelete ==
  /\ used.edits < MaxEdits
  /\ \E pr \in DOMAIN product :
       /\ \A q \in Procs : <<"product", pr>> \notin tx[q].w.locks
       /\ IF Referenced(pr)
          THEN /\ UNCHANGED product
               /\ log' = Append(log, [rq |-> [op |-> "product_delete", product |-> pr],
                                      code |-> "protected"])
          ELSE /\ product' = [x \in DOMAIN product \ {pr} |-> product[x]]
               /\ log' = Append(log, [rq |-> [op |-> "product_delete", product |-> pr],
                                      code |-> "ok"])
  /\ used' = [used EXCEPT !.edits = @ + 1]
  /\ UNCHANGED <<now, coupon, cart, cartItem, order, orderItem, nextId,
                 pc, rq, lv, tx, touched, acctVars>>

\* Order.Status.choices
Statuses == {"pending", "shipped", "cancelled"}

\* a save that writes the status and recomputes the total from the subtotal
SavedWithTotal(o, s) == [o EXCEPT !.status = s, !.total_amount = o.subtotal_amount]

\* order.status = new_status; order.save(update_fields=["status"])
SavedStatus(o, s) == [o EXCEPT !.status = s]

\* order_update_status: a POST with any status among the choices is saved,
\* whatever the order's status was; the mail that follows changes no row
OrderUpdateStatus ==
  /\ \E o \in order, new_status \in Statuses :
        order' = (order \ {o}) \cup {SavedStatus(o, new_status)}
  /\ UNCHANGED <<now, product, coupon, cart, cartItem, orderItem, nextId,
                 pc, rq, lv, tx, used, touched, log, acctVars>>

\* ---------------------------------------------------------------- coupons
\* Coupon.is_active_now, on the coupon object cp at time t
IsActiveNow(cp, t) ==
  /\ cp.is_enabled
  /\ ~(t < cp.start_at \/ t > cp.end_at)
  /\ ~(cp.usage_limit # Null /\ cp.times_used >= cp.usage_limit)

\* an eligibility check that looks at the minimum cart value first
MinimumFirst(cp, t, I, c) ==
  IF Subtotal(I, c) < cp.minimum_cart_value THEN "coupon_minimum"
  ELSE IF ~IsActiveNow(cp, t) THEN "coupon_inactive"
  ELSE IF /\ cp.applicable_products # {}
          /\ {it.product : it \in Lines(I, c)} \cap cp.applicable_products = {}
       THEN "coupon_products"
  ELSE "ok"

\* Coupon.is_applicable_to_cart: "ok", or the reason of the first failing check
IsApplicableToCart(cp, t, I, c) ==
  IF ~IsActiveNow(cp, t) THEN "coupon_inactive"
  ELSE IF Subtotal(I, c) < cp.minimum_cart_value THEN "coupon_minimum"
  ELSE IF /\ cp.applicable_products # {}
          /\ {it.product : it \in Lines(I, c)} \cap cp.applicable_products = {}
       THEN "coupon_products"
  ELSE "ok"

\* Coupon.compute_discount on a cart of the given subtotal: the percentage is
\* quantized to 4 places, the product and the flat amount to cents
ComputeDiscount(cp, subtotal) ==
  IF cp.discount_type = "percentage"
  THEN LET pct == RoundHalfEven(cp.discount_value * 10000, 100 * 100)
       IN  RoundHalfEven(subtotal * pct, 10000)
  ELSE RoundHalfEven(Min(cp.discount_value, subtotal) * 100, 100)

\* coupon_validate: Coupon.objects.get(code__iexact=code)
CouponLookup(p) ==
  /\ pc[p] = "cv_lookup"
  /\ IF rq[p].code \notin Coupons
     THEN Respond(p, "coupon_invalid", EmptyW)
     ELSE /\ Goto(p, "cv_check",
                  [lv[p] EXCEPT !.cp = {[id |-> rq[p].code, row |-> coupon[rq[p].code]]}])
          /\ UNCHANGED <<dbVars, tx, touched>>
  /\ UNCHANGED <<nextId, used>>

\* coupon_validate: coupon.is_applicable_to_cart(cart)
CouponCheck(p) ==
  /\ pc[p] = "cv_check"
  /\ LET cp == (CHOOSE x \in lv[p].cp : TRUE).row
         why == IsApplicableToCart(cp, now, ItemsOf(p), lv[p].cart)
     IN  IF why # "ok"
         THEN Respond(p, why, EmptyW)
         ELSE /\ Goto(p, "cv_amounts", lv[p])
              /\ UNCHANGED <<dbVars, tx, touched>>
  /\ UNCHANGED <<nextId, used>>

\* coupon_validate: subtotal = cart.subtotal()
CouponSubtotal(p) ==
  /\ pc[p] = "cv_amounts"
  /\ Goto(p, "cv_discount",
          [lv[p] EXCEPT !.subtotal = Subtotal(ItemsOf(p), lv[p].cart)])
  /\ UNCHANGED <<dbVars, tx, touched, nextId, used>>

\* coupon_validate: discount = coupon.compute_discount(cart), which reads the
\* subtotal of the cart again
CouponDiscount(p) ==
  /\ pc[p] = "cv_discount"
  /\ LET cp == (CHOOSE x \in lv[p].cp : TRUE).row
         subtotal == Subtotal(ItemsOf(p), lv[p].cart)
     IN  Goto(p, "cv_respond",
              [lv[p] EXCEPT !.discount = ComputeDiscount(cp, subtotal),
                            !.basis = subtotal])
  /\ UNCHANGED <<dbVars, tx, touched, nextId, used>>

\* coupon_validate: the response with the code and the amounts
CouponRespond(p) ==
  /\ pc[p] = "cv_respond"
  /\ Respond(p, "ok", EmptyW)
  /\ UNCHANGED <<nextId, used>>

\* --------------------------------------------------------------- checkout
\* a validation that asks a guest only for the name
NameGiven(r) == r.guest_full_name # ""

\* OrderCreateSerializer.validate, for a request that is not authenticated
GuestDataGiven(r) == ~(r.guest_full_name = "" \/ r.guest_email = "")

\* order_create: OrderCreateSerializer.validate and the coupon lookup, then
\* create_order_from_cart opens its transaction
CheckoutValidate(p) ==
  /\ pc[p] = "co_validate"
  /\ LET r == rq[p]
     IN  \/ /\ r.user = Anon /\ ~GuestDataGiven(r)
            /\ Raise(p, "bad_request")
         \/ /\ r.user # Anon \/ GuestDataGiven(r)
            /\ r.code # NoCode /\ r.code \notin Coupons
            /\ Respond(p, "coupon_invalid", EmptyW)
         \/ /\ r.user # Anon \/ GuestDataGiven(r)
            /\ r.code = NoCode \/ r.code \in Coupons
            /\ Goto(p, "co_count",
                    [lv[p] EXCEPT !.cp = IF r.code = NoCode THEN {}
                                         ELSE {[id |-> r.code, row |-> coupon[r.code]]}])
            /\ tx' = [tx EXCEPT ![p] = [active |-> TRUE, w |-> EmptyW]]
            /\ UNCHANGED <<dbVars, touched>>
  /\ UNCHANGED <<nextId, used>>

\* a checkout without the emptiness check
NeverEmpty(I, c) == FALSE

\* cart.items.count() == 0
CartIsEmpty(I, c) == Lines(I, c) = {}

CheckoutCount(p) ==
  /\ pc[p] = "co_count"
  /\ IF CartIsEmpty(ItemsOf(p), lv[p].cart)
     THEN Raise(p, "empty")
     ELSE /\ Goto(p, "co_subtotal", lv[p])
          /\ UNCHANGED <<dbVars, tx, touched>>
  /\ UNCHANGED <<nextId, used>>

CheckoutSubtotal(p) ==
  /\ pc[p] = "co_subtotal"
  /\ LET subtotal == Subtotal(ItemsOf(p), lv[p].cart)
     IN  IF subtotal < MinOrderAmount
         THEN Raise(p, "min_order")
         ELSE /\ Goto(p, IF lv[p].cp = {} THEN "co_lock" ELSE "co_coupon",
                      [lv[p] EXCEPT !.subtotal = subtotal])
              /\ UNCHANGED <<dbVars, tx, touched>>
  /\ UNCHANGED <<nextId, used>>

\* coupon.is_applicable_to_cart and coupon.compute_discount, on the coupon
\* object that order_create loaded
CheckoutCoupon(p) ==
  /\ pc[p] = "co_coupon"
  /\ LET cp == (CHOOSE x \in lv[p].cp : TRUE).row
         I == ItemsOf(p)
         why == IsApplicableToCart(cp, now, I, lv[p].cart)
     IN  IF why # "ok"
         THEN Raise(p, why)
         ELSE /\ Goto(p, "co_lock",
                      [lv[p] EXCEPT
                         !.discount = ComputeDiscount(cp, Subtotal(I, lv[p].cart)),
                         !.basis = Subtotal(I, lv[p].cart)])
              /\ UNCHANGED <<dbVars, tx, touched>>
  /\ UNCHANGED <<nextId, used>>

\* a validation loop that stops after the first line
ShortFirstLine(rows) ==
  {it \in rows : it = MinId(rows) /\ it.quantity > product[it.product].stock_quantity}

\* the lines whose quantity exceeds the stock of their product
ShortLines(rows) == {it \in rows : it.quantity > product[it.product].stock_quantity}

\* the first loop: lock the lines and their products, validate every line
CheckoutLock(p) ==
  /\ pc[p] = "co_lock"
  /\ LET rows == Lines(ItemsOf(p), lv[p].cart)
         L == ItemLocks(rows) \cup ProductLocks(rows)
     IN  /\ CanLock(p, L)
         /\ IF ShortLines(rows) # {}
            THEN Raise(p, "insufficient_stock")
            ELSE /\ Stage(p, [EmptyW EXCEPT !.locks = L])
                 /\ Goto(p, "co_decr", lv[p])
  /\ UNCHANGED <<nextId, used>>

\* a stock column without the CHECK
NoStockCheck(n) == TRUE

\* PositiveIntegerField: the column's CHECK (stock_quantity >= 0)
StockCheck(n) == n >= 0

\* item.product.stock_quantity -= item.quantity, for the lines rows
Decrements(rows) ==
  {[id |-> it.product,
    stock_quantity |-> product[it.product].stock_quantity - it.quantity] :
     it \in {x \in rows : \A y \in rows : y.product = x.product => y.id <= x.id}}

\* the second loop: decrement and save the stock of every line's product
CheckoutDecrement(p) ==
  /\ pc[p] = "co_decr"
  /\ LET rows == Lines(ItemsOf(p), lv[p].cart)
         L == ItemLocks(rows) \cup ProductLocks(rows)
         bad == {it \in rows :
                   ~StockCheck(product[it.product].stock_quantity - it.quantity)}
     IN  /\ CanLock(p, L)
         /\ IF bad # {}                       \* IntegrityError at the first save
            THEN RaiseAfter(p, "server_error",
                   [EmptyW EXCEPT
                      !.stock = Decrements({it \in rows : it.id < MinId(bad).id})])
            ELSE /\ Stage(p, [EmptyW EXCEPT !.stock = Decrements(rows), !.locks = L])
                 /\ Goto(p, "co_order", lv[p])
  /\ UNCHANGED <<nextId, used>>

\* a total without the floor at 0
TotalUnfloored(subtotal, discount) == subtotal - discount

\* total = subtotal - discount, floored at 0
OrderTotal(subtotal, discount) ==
  LET total == RoundHalfEven((subtotal - discount) * 100, 100)
  IN  IF total < 0 THEN 0 ELSE total

\* an OrderItem priced at the product's current price
OrderItemCurrent(o, it) ==
  [id |-> it.id, order |-> o, product |-> it.product,
   quantity |-> it.quantity, unit_price |-> product[it.product].price,
   line_total |-> RoundHalfEven(product[it.product].price * it.quantity * 100, 100)]

\* OrderItem.objects.create for the cart line it, in the order o
OrderItemOf(o, it) ==
  [id |-> it.id, order |-> o, product |-> it.product,
   quantity |-> it.quantity, unit_price |-> it.unit_price,
   line_total |-> RoundHalfEven(it.unit_price * it.quantity * 100, 100)]

\* Order.objects.create and one OrderItem per line of the cart
CheckoutOrder(p) ==
  /\ pc[p] = "co_order"
  /\ nextId.order <= MaxOrderId
  /\ LET r == rq[p]
         rows == Lines(ItemsOf(p), lv[p].cart)
         o == [id |-> nextId.order, user |-> r.user,
               guest_full_name |-> r.guest_full_name,
               guest_email |-> r.guest_email,
               status |-> "pending",
               coupon |-> IF lv[p].cp = {} THEN Null
                          ELSE (CHOOSE x \in lv[p].cp : TRUE).id,
               subtotal_amount |-> lv[p].subtotal,
               discount_amount |-> lv[p].discount,
               total_amount |-> OrderTotal(lv[p].subtotal, lv[p].discount),
               from_cart |-> lv[p].cart, discount_basis |-> lv[p].basis]
         items == {OrderItemOf(o.id, it) : it \in rows}
     IN  Stage(p, [EmptyW EXCEPT !.orders = {o}, !.orderItems = items])
  /\ nextId' = [nextId EXCEPT !.order = @ + 1]
  /\ Goto(p, IF lv[p].cp = {} THEN "co_finish" ELSE "co_used", lv[p])
  /\ UNCHANGED used

\* an increment computed from the coupon object the request loaded
IncrementedCached(row, cached) == cached.times_used + 1

\* update(times_used=F("times_used") + 1): computed by the database from the
\* row, not from the coupon object the request holds
IncrementedTimesUsed(row, cached) == row.times_used + 1

CheckoutCouponUsed(p) ==
  /\ pc[p] = "co_used"
  /\ LET c == CHOOSE x \in lv[p].cp : TRUE
     IN  /\ CanLock(p, {<<"coupon", c.id>>})
         /\ Stage(p, [EmptyW EXCEPT
               !.coupons = {[id |-> c.id,
                             times_used |-> IncrementedTimesUsed(coupon[c.id], c.row)]},
               !.locks = {<<"coupon", c.id>>}])
  /\ Goto(p, "co_finish", lv[p])
  /\ UNCHANGED <<nextId, used>>

\* cart.save(update_fields=["checked_out_at"]); cart.items.all().delete();
\* return order: the transaction commits
CheckoutFinish(p) ==
  /\ pc[p] = "co_finish"
  /\ LET rows == Lines(ItemsOf(p), lv[p].cart)
         c == CHOOSE x \in CartsOf(p) : x.id = lv[p].cart
     IN  /\ CanLock(p, ItemLocks(rows) \cup {<<"cart", c.id>>})
         /\ CommitTx(p, [EmptyW EXCEPT
               !.cartPut = {[c EXCEPT !.checked_out = TRUE]},
               !.itemDel = Ids(rows)])
  /\ Goto(p, "co_mail", lv[p])
  /\ UNCHANGED <<nextId, used>>

\* a confirmation mail whose failure reaches the caller
MailRaises(sent) == IF sent THEN "ok" ELSE "server_error"

\* try: send_order_confirmation_email(order) / except Exception: pass, then
\* the 201
AfterMail(sent) == "ok"

\* order_create after create_order_from_cart has returned: the confirmation
\* mail leaves or not, and the order is returned
CheckoutMail(p) ==
  /\ pc[p] = "co_mail"
  /\ \E sent \in BOOLEAN : Respond(p, AfterMail(sent), EmptyW)
  /\ UNCHANGED <<nextId, used>>

\* ---------------------------------------------------------- specification
\* every step of a handler but MergeUpdate, which needs a line that another
\* request put in the user cart after the merge found that cart empty
HandleAlone(p) ==
  \/ ResolveUser(p)
  \/ ResolveCreate(p)
  \/ ResolveGuest(p)
  \/ ResolveMerge(p)
  \/ MergeSelect(p)
  \/ MergeCreate(p)
  \/ MergeDelete(p)
  \/ CartDetail(p)
  \/ AddValidate(p)
  \/ AddGet(p)
  \/ AddSave(p)
  \/ AddCreate(p)
  \/ CartItemUpdate(p)
  \/ CartItemDelete(p)
  \/ CouponLookup(p)
  \/ CouponCheck(p)
  \/ CouponSubtotal(p)
  \/ CouponDiscount(p)
  \/ CouponRespond(p)
  \/ CheckoutValidate(p)
  \/ CheckoutCount(p)
  \/ CheckoutSubtotal(p)
  \/ CheckoutCoupon(p)
  \/ CheckoutLock(p)
  \/ CheckoutDecrement(p)
  \/ CheckoutOrder(p)
  \/ CheckoutCouponUsed(p)
  \/ CheckoutFinish(p)
  \/ CheckoutMail(p)

Handle(p) == HandleAlone(p) \/ MergeUpdate(p)

Step(p) == Start(p) \/ Handle(p)

Next == (\E p \in Procs : Step(p)) \/ ProductEdit

Spec == Init /\ [][Next]_vars


\* ------------------------------------------- one request after the other
AllIdle == \A q \in Procs : pc[q] = "idle"

StartSerial(p) == AllIdle /\ Start(p)

ProductEditSerial == AllIdle /\ ProductEdit

NextSerial ==
  \/ \E p \in Procs : StartSerial(p) \/ HandleAlone(p)
  \/ ProductEditSerial

SpecSerial == Init /\ [][NextSerial]_vars

\* --------------------------------------- concurrent adds and checkouts
\* three guest carts: carts 1 and 2 hold one unit each of product 2, of which
\* 1 is in stock; cart 3 holds one unit of product 1, of which 3 are in stock
RaceStock == 3

RaceItems ==
  {ItemRow(1, 1, 2, 1, 250), ItemRow(2, 2, 2, 1, 250), ItemRow(3, 3, 1, 1, 250)}

\* the coupon has no usage limit
InitRace ==
  /\ now = 1
  /\ product = [pr \in Products |->
                  [price |-> 250,
                   stock_quantity |-> IF pr = 1 THEN RaceStock ELSE 1]]
  /\ coupon = [c \in Coupons |-> CouponRow("flat", 150, Null)]
  /\ cart = {CartRow(i, Anon) : i \in 1 .. 3}
  /\ cartItem = RaceItems
  /\ order = {}
  /\ orderItem = {}
  /\ nextId = [cart |-> 4, item |-> 4, order |-> 1]
  /\ InitProcs
  /\ InitAccounts

RaceRequests ==
  {Add(Anon, t, 1, q) : t \in {1, 3}, q \in 1 .. MaxQty}
  \cup {Checkout(Anon, t, k, Named) : t \in 1 .. 3, k \in {NoCode} \cup Coupons}

StartRace(p) == StartFrom(p, RaceRequests)

NextRace ==
  \E p \in Procs :
     \/ StartRace(p)
     \/ ResolveGuest(p)
     \/ AddValidate(p)
     \/ AddGet(p)
     \/ AddSave(p)
     \/ AddCreate(p)
     \/ CheckoutValidate(p)
     \/ CheckoutCount(p)
     \/ CheckoutSubtotal(p)
     \/ CheckoutCoupon(p)
     \/ CheckoutLock(p)
     \/ CheckoutDecrement(p)
     \/ CheckoutOrder(p)
     \/ CheckoutCouponUsed(p)
     \/ CheckoutFinish(p)
     \/ CheckoutMail(p)

SpecRace == InitRace /\ [][NextRace]_vars

\* ------------------------------------------------ the coupon form
\* discount values a staff member may submit, in hundredths
DiscountValues == {0 - 1, 0, 1, 50, 150, 3333, 5000, 9999, 10000, 10001, 15000}

\* unit prices of the line in the cart, in cents
LinePrices == {0, 1, 33, 250}

\* a form that accepts every value at least 0
CleanNonNegative(type, value) == value >= 0

\* CouponForm.clean_discount_value: does the form accept the value
CleanDiscountValue(type, value) ==
  /\ ~(value < 0)
  /\ ~(type = "percentage" /\ value > 100 * 100)

\* coupon_create and coupon_edit: form.save() when the form is valid, the
\* form shown again otherwise
CouponSave ==
  /\ \E c \in Coupons, type \in {"flat", "percentage"}, value \in DiscountValues :
       IF CleanDiscountValue(type, value)
       THEN coupon' = [coupon EXCEPT ![c].discount_type = type,
                                     ![c].discount_value = value]
       ELSE UNCHANGED coupon
  /\ UNCHANGED <<now, product, cart, cartItem, order, orderItem, nextId,
                 pc, rq, lv, tx, used, touched, log, acctVars>>

\* one guest cart with one line of any quantity and price
InitCoupon ==
  /\ now = 1
  /\ product = InitProduct
  /\ coupon = [c \in Coupons |-> CouponRow("flat", 150, Null)]
  /\ cart = {CartRow(1, Anon)}
  /\ \E q \in 1 .. MaxQty, price \in LinePrices :
        cartItem = {ItemRow(1, 1, 1, q, price)}
  /\ order = {}
  /\ orderItem = {}
  /\ nextId = [cart |-> 2, item |-> 2, order |-> 1]
  /\ InitProcs
  /\ InitAccounts

NextCoupon == CouponSave

SpecCoupon == InitCoupon /\ [][NextCoupon]_vars

\* ------------------------------------------------- coupon eligibility
\* the clock runs from before start_at (1) to after end_at (2)
Times == 0 .. 3

\* minimum cart values of the coupon and unit prices of the line, in cents
MinimumValues == {0, 5000}
EligiblePrices == {4000, 6000}

\* one guest cart, empty or with one line of product 1; a coupon with any
\* combination of enabled flag, usage count, minimum and product restriction
InitEligible ==
  /\ now \in Times
  /\ product = InitProduct
  /\ \E en \in BOOLEAN, lim \in {Null, 1}, n \in {0, 1}, min \in MinimumValues,
        ap \in {{}, {1}, {2}} :
        coupon = [c \in Coupons |->
                    [CouponRow("flat", 150, lim) EXCEPT
                       !.is_enabled = en, !.times_used = n,
                       !.minimum_cart_value = min, !.applicable_products = ap]]
  /\ cart = {CartRow(1, Anon)}
  /\ cartItem \in {{}} \cup {{ItemRow(1, 1, 1, 1, price)} : price \in EligiblePrices}
  /\ order = {}
  /\ orderItem = {}
  /\ nextId = [cart |-> 2, item |-> 2, order |-> 1]
  /\ InitProcs
  /\ InitAccounts

EligibleRequests == {Validate(Anon, 1, k) : k \in Coupons \cup {BadCode}}

StartEligible(p) == StartFrom(p, EligibleRequests)

NextEligible ==
  \E p \in Procs :
     \/ StartEligible(p)
     \/ ResolveGuest(p)
     \/ CouponLookup(p)
     \/ CouponCheck(p)
     \/ CouponSubtotal(p)
     \/ CouponDiscount(p)
     \/ CouponRespond(p)

SpecEligible == InitEligible /\ [][NextEligible]_vars

\* ------------------------------------------------- amounts of an order
\* discount values of the coupon, in hundredths, and unit prices of product 1
OrderValues == {0, 1000, 1500, 5000, 9999, 10000, 20000}
OrderPrices == {333, 5000, 10000}

\* one guest cart with one unit of product 1 at its current price; a coupon of
\* any type and value the form accepts, without usage limit
InitOrder ==
  /\ now = 1
  /\ \E price \in OrderPrices :
        /\ product = [pr \in Products |->
                        [price |-> price, stock_quantity |-> MaxStock]]
        /\ cartItem = {ItemRow(1, 1, 1, 1, price)}
  /\ \E type \in {"flat", "percentage"}, value \in OrderValues :
        /\ CleanDiscountValue(type, value)
        /\ coupon = [c \in Coupons |-> CouponRow(type, value, Null)]
  /\ cart = {CartRow(1, Anon)}
  /\ order = {}
  /\ orderItem = {}
  /\ nextId = [cart |-> 2, item |-> 2, order |-> 1]
  /\ InitProcs
  /\ InitAccounts

OrderRequests ==
  {Checkout(Anon, 1, k, Named) : k \in {NoCode} \cup Coupons}
  \cup {Validate(Anon, 1, k) : k \in Coupons}
  \cup {Add(Anon, 1, 1, 1)}

StartOrder(p) == StartFrom(p, OrderRequests)

NextOrder ==
  \E p \in Procs :
     \/ StartOrder(p)
     \/ ResolveGuest(p)
     \/ AddValidate(p)
     \/ AddGet(p)
     \/ AddSave(p)
     \/ CouponLookup(p)
     \/ CouponCheck(p)
     \/ CouponSubtotal(p)
     \/ CouponDiscount(p)
     \/ CouponRespond(p)
     \/ CheckoutValidate(p)
     \/ CheckoutCount(p)
     \/ CheckoutSubtotal(p)
     \/ CheckoutCoupon(p)
     \/ CheckoutLock(p)
     \/ CheckoutDecrement(p)
     \/ CheckoutOrder(p)
     \/ CheckoutCouponUsed(p)
     \/ CheckoutFinish(p)
     \/ CheckoutMail(p)

SpecOrder == InitOrder /\ [][NextOrder]_vars

\* ============================================================ properties
\* the response just sent by the step
Sent == log'[Len(log')]

\* the failures of a checkout that the handler reports as unmet preconditions
PreconditionFailures ==
  {"empty", "min_order", "coupon_invalid", "coupon_inactive", "coupon_minimum",
   "coupon_products", "insufficient_stock"}

FailedCheckouts ==
  {i \in DOMAIN log : log[i].rq.op = "checkout" /\ log[i].code \in PreconditionFailures}

\* C1 as stated: a checkout that fails a precondition has committed no change
\* to stock, orders, coupon usage, the cart or the lines of any cart
FailedCheckoutChangesNothing ==
  \A i \in FailedCheckouts : log[i].touched \subseteq {"new_cart"}

\* C1: a checkout that does not answer with an order, whether a precondition
\* failed or the database aborted it, has committed nothing of
\* create_order_from_cart (no stock, no Order or OrderItem, no times_used, no
\* checked_out_at, no deleted line); what it may have committed is the cart
\* resolution that precedes the transaction: a new cart, a merge on login
FailedCheckoutKeepsOnlyResolution ==
  \A i \in DOMAIN log :
     (log[i].rq.op = "checkout" /\ log[i].code # "ok")
        => log[i].touched \subseteq {"new_cart", "merge"}

\* a checkout refused for insufficient stock, by a cart that still has its line
FailedCheckoutSeen ==
  \E i \in FailedCheckouts :
     /\ log[i].code = "insufficient_stock"
     /\ Lines(cartItem, log[i].cart) # {}
     /\ order = {}

\* C2: when the validation loop of a checkout finds a line above the stock of
\* its product, the checkout fails with insufficient stock in that step, and
\* no product's stock changes; no checkout has written a stock before its
\* validation loop is through
ShortLineFailsBeforeAnyDecrement ==
  [][\A p \in Procs :
       /\ pc[p] \in {"co_validate", "co_count", "co_subtotal", "co_coupon", "co_lock"}
            => tx[p].w.stock = {}
       /\ (/\ pc[p] = "co_lock" /\ pc'[p] # "co_lock"
           /\ \E it \in Lines(ItemsOf(p), lv[p].cart) :
                 it.quantity > product[it.product].stock_quantity)
            => /\ pc'[p] = "idle"
               /\ Sent.code = "insufficient_stock"
               /\ "stock" \notin Sent.touched
               /\ product' = product]_vars

\* a refused checkout of a cart with a line within stock and a line above it
MixedCartRefused ==
  \E i \in DOMAIN log :
     /\ log[i].rq.op = "checkout" /\ log[i].code = "insufficient_stock"
     /\ \E a, b \in Lines(cartItem, log[i].cart) :
           /\ a.quantity <= product[a.product].stock_quantity
           /\ b.quantity > product[b.product].stock_quantity
     /\ product[1].stock_quantity = InitProduct[1].stock_quantity

\* C5: the stock of every product is at least 0, in the table and in every
\* uncommitted write
StockNeverNegative ==
  /\ \A pr \in Products : product[pr].stock_quantity >= 0
  /\ \A p \in Procs : \A s \in tx[p].w.stock : s.stock_quantity >= 0

\* a checkout whose decrement the column's CHECK refused
DecrementRefused ==
  \E i \in DOMAIN log :
     /\ log[i].rq.op = "checkout" /\ log[i].rq.user = Anon
     /\ log[i].code = "server_error"
     /\ \E it \in Lines(cartItem, log[i].cart) :
           it.quantity > product[it.product].stock_quantity

\* C6: a checkout whose cart has no line when create_order_from_cart counts
\* them fails as empty in that step, and while the cart it resolved has no
\* line the request creates no Order and no OrderItem
EmptyCartNeverOrders ==
  [][\A p \in Procs :
       (/\ rq[p].op = "checkout"
        /\ pc[p] \in {"co_validate", "co_count"}
        /\ pc'[p] # pc[p]
        /\ Lines(ItemsOf(p), lv[p].cart) = {})
         => /\ order' = order /\ orderItem' = orderItem
            /\ tx'[p].w.orders = {} /\ tx'[p].w.orderItems = {}
            /\ pc[p] = "co_count"
                 => (pc'[p] = "idle" /\ Sent.code = "empty")]_vars

\* a user's checkout of the empty cart just created for them is refused
EmptyCheckoutSeen ==
  \E i \in DOMAIN log :
     /\ log[i].rq.op = "checkout" /\ log[i].rq.user # Anon
     /\ log[i].code = "empty"
     /\ order = {} /\ orderItem = {}

\* C8: no two CartItem rows have the same cart and the same product, in the
\* table and in the view of every transaction
OneLinePerCartProduct ==
  /\ \A a, b \in cartItem :
        (a.cart = b.cart /\ a.product = b.product) => a.id = b.id
  /\ \A p \in Procs : \A a, b \in ItemsOf(p) :
        (a.cart = b.cart /\ a.product = b.product) => a.id = b.id

\* an add whose insert met the unique index and found the line of the other
\* add on its second get
DuplicateInsertRefused ==
  \E p \in Procs :
     /\ pc[p] = "add_get2"
     /\ \E it \in Lines(cartItem, lv[p].cart) : it.product = rq[p].product

\* C7: an add that runs alone on a cart whose line of the product has
\* quantity q1 (no line: q1 = 0) leaves exactly one line of the product, with
\* quantity q1 + q2, when q1 + q2 is within the stock; otherwise it fails with
\* insufficient stock and the line, its quantity and its unit price are as
\* they were
SecondAddSumsOrFails ==
  [][\A p \in Procs :
       (/\ rq[p].op = "add" /\ rq[p].quantity >= 1
        /\ pc[p] \in {"add_validate", "add_get", "add_get2", "add_save", "add_create"}
        /\ pc'[p] = "idle")
         => LET c == lv[p].cart
                pr == rq[p].product
                old == {it \in Lines(ItemsOf(p), c) : it.product = pr}
                new == {it \in Lines(cartItem', c) : it.product = pr}
                q1 == SumQuantity(old)
            IN  IF q1 + rq[p].quantity <= product[pr].stock_quantity
                THEN /\ Sent.code = "ok"
                     /\ Cardinality(new) = 1
                     /\ \A it \in new : /\ it.quantity = q1 + rq[p].quantity
                                        /\ it.unit_price = product[pr].price
                                        /\ \A o \in old : o.id = it.id
                ELSE /\ Sent.code = "insufficient_stock"
                     /\ new = old]_vars

\* two adds of product 1 to the user's cart, one after the other: the first
\* made the line, the second found it and raised it to the sum
TwoAddsOneLine ==
  /\ Len(log) = 2
  /\ \A i \in 1 .. 2 :
        /\ log[i].rq = Add(1, NoToken, 1, 1)
        /\ log[i].code = "ok"
  /\ log[1].cart = log[2].cart
  /\ \E it \in Lines(cartItem, log[2].cart) : it.product = 1 /\ it.quantity = 2

\* the run so far consists of two finished requests
TwoRequestsDone == used.requests = 2 /\ Len(log) = 2 /\ AllIdle

\* C3: when the run is two checkouts, of cart 1 and of cart 2 (each holds one
\* unit of product 2, of which 1 was in stock), in any interleaving, one
\* returns an order, the other fails with insufficient stock, and the stock
\* of product 2 is 0
LastUnitSoldOnce ==
  (/\ TwoRequestsDone
   /\ \A i \in 1 .. 2 : log[i].rq.op = "checkout"
   /\ {log[1].cart, log[2].cart} = {1, 2})
    => /\ \E i, j \in 1 .. 2 :
            /\ i # j
            /\ log[i].code = "ok"
            /\ log[j].code = "insufficient_stock"
       /\ product[2].stock_quantity = 0
       /\ Cardinality(order) = 1

\* both checkouts of the last unit are through, the second one refused
LastUnitRaceDone ==
  /\ TwoRequestsDone
  /\ log[1].rq.op = "checkout" /\ log[1].code = "ok"
  /\ log[2].rq.op = "checkout" /\ log[2].code = "insufficient_stock"
  /\ {log[1].cart, log[2].cart} = {1, 2}
  /\ product[2].stock_quantity = 0

\* C4: in every state the times_used of a coupon is its initial value, 0,
\* plus the number of checkouts for which create_order_from_cart returned an
\* order with that coupon: those that have answered with the order and those
\* that are at their confirmation mail
TimesUsedCountsOrders ==
  \A c \in Coupons :
     coupon[c].times_used =
        Cardinality({i \in DOMAIN log : /\ log[i].rq.op = "checkout"
                                        /\ log[i].rq.code = c
                                        /\ log[i].code = "ok"})
        + Cardinality({p \in Procs : pc[p] = "co_mail" /\ rq[p].code = c})

\* two checkouts with the coupon, of different carts, both
\* returned an order
CouponUsedTwice ==
  /\ \E c \in Coupons : coupon[c].times_used = 2
  /\ Len(log) = 2
  /\ \A i \in 1 .. 2 : log[i].rq.op = "checkout" /\ log[i].code = "ok"
  /\ \A o \in order : o.coupon \in Coupons

\* the quantity the successful adds of the log put on the line (c, pr)
Added(c, pr) ==
  SumQuantity({[id |-> i, quantity |-> log[i].rq.quantity] :
                 i \in {j \in DOMAIN log : /\ log[j].cart = c
                                           /\ log[j].rq.product = pr
                                           /\ log[j].code = "ok"}})

\* C9: when every request of the run was an add and all are through, in any
\* interleaving, every line holds what it held at first plus the quantities of
\* the adds that succeeded on it, and no line is above the stock of its product
ConcurrentAddsSum ==
  (/\ AllIdle
   /\ used.requests = Len(log)
   /\ \A i \in DOMAIN log : log[i].rq.op = "add")
    => \A c \in Ids(cart), pr \in Products :
          LET line == {it \in Lines(cartItem, c) : it.product = pr}
              first == {it \in Lines(RaceItems, c) : it.product = pr}
          IN  /\ SumQuantity(line) = SumQuantity(first) + Added(c, pr)
              /\ SumQuantity(line) <= product[pr].stock_quantity
              /\ Cardinality(line) <= 1

\* an add holds the lock of the line while another add of the same product to
\* the same cart is waiting for it
AddWaitsForAdd ==
  \E p, q \in Procs :
     /\ pc[p] = "add_save" /\ pc[q] = "add_get"
     /\ lv[p].cart = lv[q].cart /\ rq[p].product = rq[q].product
     /\ \E it \in lv[p].existing : <<"item", it.id>> \in tx[p].w.locks
     /\ rq[p].quantity + rq[q].quantity + SumQuantity(lv[p].existing)
           <= product[rq[p].product].stock_quantity

\* C10: for every coupon the form has saved and every cart, the discount of
\* the coupon on the cart is at least 0 and at most the subtotal of the cart
DiscountWithinSubtotal ==
  \A c \in Coupons, k \in Ids(cart) :
     LET subtotal == Subtotal(cartItem, k)
         discount == ComputeDiscount(coupon[c], subtotal)
     IN  0 <= discount /\ discount <= subtotal

\* a coupon of 100 percent takes the whole subtotal, a flat coupon above the
\* subtotal is capped at it
FullDiscountSeen ==
  \E c \in Coupons, k \in Ids(cart) :
     /\ Subtotal(cartItem, k) > 0
     /\ coupon[c].discount_type = "percentage"
     /\ coupon[c].discount_value = 100 * 100
     /\ ComputeDiscount(coupon[c], Subtotal(cartItem, k)) = Subtotal(cartItem, k)

IsRounded(d, n, m) == 2 * (d * m - n) <= m /\ 2 * (n - d * m) <= m

\* the discount of a coupon of the given type and value on a subtotal, as C12
\* states it
StatedDiscount(d, type, value, subtotal) ==
  IF type = "flat"
  THEN d = (IF value <= subtotal THEN value ELSE subtotal)
  ELSE IsRounded(d, subtotal * value, 100 * 100)

\* C12: the discount that coupon_validate answers and the discount_amount of
\* an order with a coupon are, on the subtotal that compute_discount read,
\* min(value, subtotal) for a flat coupon and subtotal * value / 100 rounded to
\* cents for a percentage coupon; on a subtotal of 100.00 a flat 15 gives
\* 15.00 and a total of 85.00, and 10 percent gives 10.00 and a total of 90.00
DiscountAsStated ==
  /\ \A i \in DOMAIN log :
        (log[i].rq.op = "validate" /\ log[i].code = "ok")
          => StatedDiscount(log[i].discount,
                            coupon[log[i].rq.code].discount_type,
                            coupon[log[i].rq.code].discount_value,
                            log[i].basis)
  /\ \A o \in order :
        o.coupon # Null =>
          LET cp == coupon[o.coupon]
              hundred == o.subtotal_amount = 10000 /\ o.discount_basis = 10000
          IN  /\ StatedDiscount(o.discount_amount, cp.discount_type,
                                cp.discount_value, o.discount_basis)
              /\ (hundred /\ cp.discount_type = "flat" /\ cp.discount_value = 1500)
                   => (o.discount_amount = 1500 /\ o.total_amount = 8500)
              /\ (hundred /\ cp.discount_type = "percentage"
                          /\ cp.discount_value = 1000)
                   => (o.discount_amount = 1000 /\ o.total_amount = 9000)

\* an order on a subtotal of 100.00 with a coupon of 10 percent
TenPercentOrder ==
  \E o \in order :
     /\ o.coupon # Null
     /\ coupon[o.coupon].discount_type = "percentage"
     /\ coupon[o.coupon].discount_value = 1000
     /\ o.subtotal_amount = 10000 /\ o.discount_basis = 10000
     /\ o.discount_amount = 1000 /\ o.total_amount = 9000

\* C13: every order has total_amount = max(0, subtotal_amount -
\* discount_amount), at least 0; its discount_amount is 0 when no coupon was
\* supplied; with a coupon it is the discount the coupon computes on the
\* cart, which is the discount on subtotal_amount when the cart did not change
\* between the two reads of its subtotal
OrderTotalFloored ==
  \A o \in order :
     LET diff == o.subtotal_amount - o.discount_amount
     IN  /\ o.total_amount = (IF diff > 0 THEN diff ELSE 0)
         /\ o.total_amount >= 0
         /\ o.coupon = Null => o.discount_amount = 0
         /\ o.coupon # Null
              => /\ o.discount_amount =
                      ComputeDiscount(coupon[o.coupon], o.discount_basis)
                 /\ o.discount_basis = o.subtotal_amount
                      => o.discount_amount <= o.subtotal_amount

\* an order whose discount, computed after an add had raised the cart, is
\* above the subtotal taken before it: the total is floored at 0
FlooredOrderSeen ==
  \E o \in order :
     /\ o.coupon # Null
     /\ o.discount_amount > o.subtotal_amount
     /\ o.total_amount = 0

\* C14 as stated: when a merge into the empty cart of a user ends (its last
\* statement empties the guest cart), the subtotal of the user cart is the
\* subtotal the guest cart had, and the guest cart has no line left
MergeKeepsSubtotal ==
  [][\A p \in Procs :
       (pc[p] = "merge_del" /\ pc'[p] # "merge_del")
         => /\ Subtotal(ItemsOf(p)', lv[p].cart) = Subtotal(ItemsOf(p), lv[p].guest)
            /\ Lines(ItemsOf(p)', lv[p].guest) = {}]_vars

\* C15 as stated: in every reachable state each user has at most one open
\* cart among the committed rows
OneOpenCartPerUser ==
  \A u \in Users : Cardinality({c \in OpenCarts(cart) : c.user = u}) <= 1

\* C16 as stated: every committed cart has a user and no guest token, or a
\* guest token and no user
OneKindOfOwner ==
  \A c \in cart :
    \/ c.user # Anon /\ c.guest_token = NoToken
    \/ c.user = Anon /\ c.guest_token # NoToken

\* ------------------------------------------- the shop and the order desk
\* every request of the shop, product edits and status changes by the staff
NextDashboard == Next \/ OrderUpdateStatus

SpecDashboard == Init /\ [][NextDashboard]_vars

\* C17 as stated: a step changes the status of an order only from pending to
\* shipped or from pending to cancelled
StatusOnlyLeavesPending ==
  [][\A o \in order : \A n \in order' :
       (n.id = o.id /\ n.status # o.status)
         => o.status = "pending" /\ n.status \in {"shipped", "cancelled"}]_vars

\* C18: no step removes an order or an order line, changes a field of an order
\* other than its status, changes a field of an order line, or adds a line to
\* an order that already exists
OrderSnapshotKept ==
  [][/\ \A o \in order : \E n \in order' : [n EXCEPT !.status = o.status] = o
     /\ orderItem \subseteq orderItem'
     /\ \A it \in orderItem' \ orderItem : it.order \notin Ids(order)]_vars

\* an order with a discount was shipped, and a later checkout made a second one
ShippedThenSecondOrder ==
  \E o \in order, n \in order :
     /\ o.id < n.id
     /\ o.status = "shipped"
     /\ o.discount_amount > 0
     /\ n.status = "pending"

\* ----------------------------------------------- accounts and their codes
\* str.lower() on the addresses the requests carry
Lower(e) ==
  CASE e = "New@x" -> "new@x"
    [] e = "Ann@x" -> "ann@x"
    [] OTHER -> e

\* _generate_otp draws the digits at random
Otps == {"000000", "111111"}

\* email__iexact
SameEmail(a, b) == Lower(a) = Lower(b)

Register(username, email) ==
  [op |-> "register", username |-> username, email |-> email, first_name |-> "New"]

ProfileUpdate(u, email, first) ==
  [op |-> "profile", user |-> u, email |-> email, first_name |-> first]

\* registrations under two user names with a free or a taken address, and
\* profile updates of user 1 with no address, her own, or a new one
AccountRequests ==
  {Register(n, e) : n \in {"bob", "cat"}, e \in {"New@x", "new@x", "ann@x"}}
  \cup {ProfileUpdate(1, e, "Anna") : e \in {"", "Ann@x", "New@x", "new@x"}}

\* the handler's locals: the rows it created, what validation found, whether
\* the mail left
NoAcct == [user |-> 0, rec |-> 0, req |-> 0, errors |-> FALSE, sent |-> TRUE]

\* IsAuthenticated: the token of an active user
Authenticated(r) ==
  r.op = "profile" => \E u \in authUser : u.id = r.user /\ u.is_active

StartAccount(p) ==
  /\ pc[p] = "idle"
  /\ \A q \in Procs : q < p => pc[q] # "idle"
  /\ used.requests < MaxRequests
  /\ \E r \in AccountRequests :
       /\ Authenticated(r)
       /\ rq' = [rq EXCEPT ![p] = r]
       /\ pc' = [pc EXCEPT ![p] = IF r.op = "register" THEN "reg_username"
                                  ELSE "pu_check"]
  /\ lv' = [lv EXCEPT ![p] = NoAcct]
  /\ used' = [used EXCEPT !.requests = @ + 1]
  /\ UNCHANGED <<now, product, coupon, cart, cartItem, order, orderItem,
                 nextId, tx, touched, log, acctVars>>

\* what an account handler leaves alone
ShopUnchanged ==
  UNCHANGED <<now, product, coupon, cart, cartItem, order, orderItem,
              nextId, tx, touched, used>>

\* the response is sent; log keeps the request, the response code and the
\* handler's locals
Answer(p, code) ==
  /\ pc' = [pc EXCEPT ![p] = "idle"]
  /\ log' = Append(log, [rq |-> rq[p], code |-> code, made |-> lv[p]])
  /\ rq' = [rq EXCEPT ![p] = NoRq]
  /\ lv' = [lv EXCEPT ![p] = NoLv]

\* RegisterSerializer.validate_username
RegisterUsername(p) ==
  /\ pc[p] = "reg_username"
  /\ Goto(p, "reg_email",
          [lv[p] EXCEPT !.errors = \E u \in authUser : u.username = rq[p].username])
  /\ ShopUnchanged
  /\ UNCHANGED acctVars

\* RegisterSerializer.validate_email, then is_valid(raise_exception=True)
RegisterEmail(p) ==
  /\ pc[p] = "reg_email"
  /\ IF lv[p].errors \/ \E u \in authUser : SameEmail(u.email, rq[p].email)
     THEN Answer(p, "invalid")
     ELSE Goto(p, "reg_save", lv[p])
  /\ ShopUnchanged
  /\ UNCHANGED acctVars

\* s.save(): create_user with is_active=False; the user name is unique
RegisterSave(p) ==
  /\ pc[p] = "reg_save"
  /\ IF \E u \in authUser : u.username = rq[p].username
     THEN /\ Answer(p, "conflict")
          /\ UNCHANGED acctVars
     ELSE /\ authUser' = authUser \cup
                {UserRow(nextPk.user, rq[p].username, Lower(rq[p].email), FALSE,
                         rq[p].first_name)}
          /\ nextPk' = [nextPk EXCEPT !.user = @ + 1]
          /\ Goto(p, "reg_code_del", [lv[p] EXCEPT !.user = nextPk.user])
          /\ UNCHANGED <<emailCode, emailChange>>
  /\ ShopUnchanged

\* EmailVerificationCode.objects.filter(email__iexact=email).delete()
OtherCodes(rows, email) == {r \in rows : ~SameEmail(r.email, email)}

\* create_for_email, first statement
RegisterCodeDelete(p) ==
  /\ pc[p] = "reg_code_del"
  /\ emailCode' = OtherCodes(emailCode, Lower(rq[p].email))
  /\ Goto(p, "reg_code_new", lv[p])
  /\ ShopUnchanged
  /\ UNCHANGED <<authUser, emailChange, nextPk>>

\* create_for_email, second statement
RegisterCodeCreate(p) ==
  /\ pc[p] = "reg_code_new"
  /\ \E code \in Otps :
       emailCode' = emailCode \cup
          {[id |-> nextPk.code, email |-> Lower(rq[p].email), code |-> code]}
  /\ nextPk' = [nextPk EXCEPT !.code = @ + 1]
  /\ Goto(p, "reg_send", [lv[p] EXCEPT !.rec = nextPk.code])
  /\ ShopUnchanged
  /\ UNCHANGED <<authUser, emailChange>>

\* send_otp_email: the mail leaves, or send_mail raises
RegisterSend(p) ==
  /\ pc[p] = "reg_send"
  /\ \/ Answer(p, "created")
     \/ Goto(p, "reg_undo_code", [lv[p] EXCEPT !.sent = FALSE])
  /\ ShopUnchanged
  /\ UNCHANGED acctVars

\* an instance delete() that leaves the row in place
KeptRow(rows, pk) == rows

\* instance.delete(): DELETE ... WHERE id = pk
WithoutPk(rows, pk) == {r \in rows : r.id # pk}

\* rec.delete()
RegisterUndoCode(p) ==
  /\ pc[p] = "reg_undo_code"
  /\ emailCode' = WithoutPk(emailCode, lv[p].rec)
  /\ Goto(p, "reg_undo_user", lv[p])
  /\ ShopUnchanged
  /\ UNCHANGED <<authUser, emailChange, nextPk>>

\* user.delete(), which cascades to the user's change requests (a user that
\* never logged in has no cart, order or token), then the 503
RegisterUndoUser(p) ==
  /\ pc[p] = "reg_undo_user"
  /\ authUser' = WithoutPk(authUser, lv[p].user)
  /\ emailChange' = {r \in emailChange : r.user # lv[p].user}
  /\ Answer(p, "unavailable")
  /\ ShopUnchanged
  /\ UNCHANGED <<emailCode, nextPk>>

\* profile_update up to the check that the new address is free
ProfileCheck(p) ==
  /\ pc[p] = "pu_check"
  /\ LET me == CHOOSE u \in authUser : u.id = rq[p].user
         new_email == Lower(rq[p].email)
     IN  IF new_email # "" /\ new_email # Lower(me.email)
         THEN IF \E u \in authUser : SameEmail(u.email, new_email) /\ u.id # me.id
              THEN Answer(p, "invalid")
              ELSE Goto(p, "pu_del", lv[p])
         ELSE Goto(p, "pu_save", lv[p])
  /\ ShopUnchanged
  /\ UNCHANGED acctVars

\* EmailChangeRequest.objects.filter(user=user).delete()
OtherRequests(rows, u) == {r \in rows : r.user # u}

ProfileDelete(p) ==
  /\ pc[p] = "pu_del"
  /\ emailChange' = OtherRequests(emailChange, rq[p].user)
  /\ Goto(p, "pu_new", lv[p])
  /\ ShopUnchanged
  /\ UNCHANGED <<authUser, emailCode, nextPk>>

\* EmailChangeRequest.objects.create(user=user, new_email=new_email, code=code)
ProfileCreate(p) ==
  /\ pc[p] = "pu_new"
  /\ \E code \in Otps :
       emailChange' = emailChange \cup
          {[id |-> nextPk.change, user |-> rq[p].user,
            new_email |-> Lower(rq[p].email), code |-> code]}
  /\ nextPk' = [nextPk EXCEPT !.change = @ + 1]
  /\ Goto(p, "pu_send", [lv[p] EXCEPT !.req = nextPk.change])
  /\ ShopUnchanged
  /\ UNCHANGED <<authUser, emailCode>>

\* send_email_change_otp: the mail leaves, or send_mail raises
ProfileSend(p) ==
  /\ pc[p] = "pu_send"
  /\ \/ Goto(p, "pu_save", lv[p])
     \/ Goto(p, "pu_undo", [lv[p] EXCEPT !.sent = FALSE])
  /\ ShopUnchanged
  /\ UNCHANGED acctVars

\* req.delete(), then the 503
ProfileUndo(p) ==
  /\ pc[p] = "pu_undo"
  /\ emailChange' = WithoutPk(emailChange, lv[p].req)
  /\ Answer(p, "unavailable")
  /\ ShopUnchanged
  /\ UNCHANGED <<authUser, emailCode, nextPk>>

\* user.save(update_fields=["first_name", "last_name"])
ProfileSave(p) ==
  /\ pc[p] = "pu_save"
  /\ authUser' = {IF u.id = rq[p].user
                  THEN [u EXCEPT !.first_name = rq[p].first_name] ELSE u :
                  u \in authUser}
  /\ Answer(p, "ok")
  /\ ShopUnchanged
  /\ UNCHANGED <<emailCode, emailChange, nextPk>>

NextAccounts ==
  \E p \in Procs :
     \/ StartAccount(p)
     \/ RegisterUsername(p)
     \/ RegisterEmail(p)
     \/ RegisterSave(p)
     \/ RegisterCodeDelete(p)
     \/ RegisterCodeCreate(p)
     \/ RegisterSend(p)
     \/ RegisterUndoCode(p)
     \/ RegisterUndoUser(p)
     \/ ProfileCheck(p)
     \/ ProfileDelete(p)
     \/ ProfileCreate(p)
     \/ ProfileSend(p)
     \/ ProfileUndo(p)
     \/ ProfileSave(p)

SpecAccounts == Init /\ [][NextAccounts]_vars

\* C19 as stated: in every reachable state there is at most one verification
\* code for an address and at most one change request for a user
OneCodePerSubject ==
  /\ \A a \in emailCode, b \in emailCode : SameEmail(a.email, b.email) => a = b
  /\ \A a \in emailChange, b \in emailChange : a.user = b.user => a = b

\* the positions of register and profile_update after send_mail has raised
UndoLabels == {"reg_undo_code", "reg_undo_user", "pu_undo"}

AccountLabels ==
  {"reg_username", "reg_email", "reg_save", "reg_code_del", "reg_code_new",
   "reg_send", "pu_check", "pu_del", "pu_new", "pu_send", "pu_save"} \cup UndoLabels

\* the finished registrations and profile updates
AccountAnswers ==
  {log[i] : i \in {j \in 1 .. Len(log) : log[j].rq.op \in {"register", "profile"}}}

\* C20: a registration or profile update whose mail could not be sent goes on
\* only to its deleting statements and answers 503 (and only then), and once
\* it has answered, the user and the verification code it created
\* (registration) or the change request it created (profile update) are in no
\* table
SendFailureUndone ==
  /\ \A p \in Procs :
       (pc[p] \in AccountLabels /\ ~lv[p].sent) => pc[p] \in UndoLabels
  /\ \A e \in AccountAnswers :
       /\ e.code = "unavailable" <=> ~e.made.sent
       /\ e.code = "unavailable" =>
            IF e.rq.op = "register"
            THEN /\ e.made.user \in 2 .. nextPk.user - 1
                 /\ e.made.rec \in 1 .. nextPk.code - 1
                 /\ e.made.user \notin Ids(authUser)
                 /\ e.made.rec \notin Ids(emailCode)
            ELSE /\ e.made.req \in 1 .. nextPk.change - 1
                 /\ e.made.req \notin Ids(emailChange)

\* a registration and a profile update have both answered 503
BothSendsFailed ==
  \E a \in AccountAnswers, b \in AccountAnswers :
     /\ a.rq.op = "register" /\ a.code = "unavailable"
     /\ b.rq.op = "profile" /\ b.code = "unavailable"

\* C21: the confirmation mail is attempted only once the checkout has
\* committed its order, the stock decrements of the order's lines, the cart
\* retirement and, if a coupon was given, the coupon increment; whether the
\* mail leaves or not, that step changes no row and the request answers with
\* success
MailNeverUndoesCheckout ==
  [][\A p \in Procs :
       pc[p] = "co_mail" =>
         /\ ~tx[p].active
         /\ {"orders", "cart"} \subseteq touched[p]
         /\ lv[p].cp # {} => "coupon" \in touched[p]
         /\ \E o \in order :
               /\ o.from_cart = lv[p].cart
               /\ (\E it \in orderItem : it.order = o.id) => "stock" \in touched[p]
         /\ \E c \in cart : c.id = lv[p].cart /\ c.checked_out
         /\ pc'[p] # "co_mail" =>
              /\ dbVars' = dbVars
              /\ Len(log') = Len(log) + 1
              /\ log'[Len(log')].rq = rq[p]
              /\ log'[Len(log')].code = "ok"]_vars

\* a checkout with a coupon has answered after its mail step, and its order,
\* the used coupon and the retired cart are there
MailedCheckoutSeen ==
  \E i \in 1 .. Len(log) :
     /\ log[i].rq.op = "checkout" /\ log[i].code = "ok" /\ log[i].rq.code \in Coupons
     /\ \E o \in order : o.from_cart = log[i].cart /\ o.coupon = log[i].rq.code
     /\ coupon[log[i].rq.code].times_used > 0
     /\ \E c \in cart : c.id = log[i].cart /\ c.checked_out

\* the finished checkouts of guests that came without a name or an email
UnnamedCheckouts ==
  {i \in 1 .. Len(log) :
     /\ log[i].rq.op = "checkout" /\ log[i].rq.user = Anon
     /\ log[i].rq.guest_full_name = "" \/ log[i].rq.guest_email = ""}

\* C22: every order has a user, or a guest name and a guest email that are
\* both non-empty; a guest checkout without the name or without the email is
\* refused by validation and has committed no order and no stock change
EveryOrderHasOwner ==
  /\ \A o \in order :
       o.user # Anon \/ (o.guest_full_name # "" /\ o.guest_email # "")
  /\ \A i \in UnnamedCheckouts :
       /\ log[i].code = "bad_request"
       /\ log[i].touched \cap {"orders", "stock"} = {}

\* a guest checkout without name and one without email were both refused
BothUnnamedRefused ==
  \E i \in UnnamedCheckouts, j \in UnnamedCheckouts :
     /\ log[i].rq.guest_full_name = "" /\ log[i].rq.guest_email # ""
     /\ log[j].rq.guest_full_name # "" /\ log[j].rq.guest_email = ""

\* --------------------------------------------- the shop and the catalogue
\* every request of the shop, with product edits and product deletions
NextCatalog == Next \/ ProductDelete

SpecCatalog == Init /\ [][NextCatalog]_vars

\* the product deletions the staff has asked for
Deletions == {i \in 1 .. Len(log) : log[i].rq.op = "product_delete"}

\* C23: no step removes a product that a cart line or an order line
\* references, no step that leaves such a product in place changes a line, a
\* refused deletion changes no row at all, and every line references a
\* product that exists
ReferencedProductStays ==
  [][/\ \A pr \in DOMAIN product : Referenced(pr) => pr \in DOMAIN product'
     /\ (Len(log') > Len(log) /\ log'[Len(log')].rq.op = "product_delete")
          => /\ <<cartItem, orderItem, cart, order, coupon>>'
                  = <<cartItem, orderItem, cart, order, coupon>>
             /\ log'[Len(log')].code = "protected" <=>
                  Referenced(log'[Len(log')].rq.product)
             /\ log'[Len(log')].code = "protected" => product' = product
     /\ \A it \in cartItem' \cup orderItem' : it.product \in DOMAIN product']_vars

\* the deletion of a product that only an order line references was refused
OrderedProductKept ==
  \E i \in Deletions :
     /\ log[i].code = "protected"
     /\ log[i].rq.product \in DOMAIN product
     /\ \E it \in orderItem : it.product = log[i].rq.product
     /\ \A it \in cartItem : it.product # log[i].rq.product

\* ------------------------------------------------ the lines of one cart
\* the guest holding token 1 adds, updates and deletes lines, one request
\* after the other, while the staff edits products
LineRequests ==
  {Add(Anon, 1, pr, q) : pr \in Products, q \in 1 .. MaxQty}
  \cup {Update(Anon, 1, i, q) : i \in 1 .. 3, q \in 0 .. MaxQty + 1}
  \cup {Delete(Anon, 1, i) : i \in 1 .. 2}

StartLines(p) == AllIdle /\ StartFrom(p, LineRequests)

NextLines ==
  \/ \E p \in Procs :
        \/ StartLines(p)
        \/ ResolveGuest(p)
        \/ AddValidate(p)
        \/ AddGet(p)
        \/ AddSave(p)
        \/ AddCreate(p)
        \/ CartItemUpdate(p)
        \/ CartItemDelete(p)
  \/ ProductEditSerial

SpecLines == Init /\ [][NextLines]_vars

\* the lines cart 1 has in Init
FirstLines == {ItemRow(1, 1, 1, 1, 250)}

\* the step that ends a delete of the line of the product that the first
\* request, an add to the same cart, has just added
RemovesTheAdded(p) ==
  /\ pc[p] = "del" /\ pc'[p] = "idle"
  /\ Len(log) = 1 /\ log[1].rq.op = "add" /\ log[1].code = "ok"
  /\ log[1].cart = lv[p].cart
  /\ \E it \in Lines(cartItem, lv[p].cart) :
        it.id = rq[p].item /\ it.product = log[1].rq.product

\* C24 as stated: removing the item that was just added gives the cart the
\* subtotal it had before the add
AddThenRemoveRestores ==
  [][\A p \in Procs :
       RemovesTheAdded(p)
         => Subtotal(cartItem', lv[p].cart) = Subtotal(FirstLines, lv[p].cart)]_vars

\* C24, amended: if the cart held no line of the product before the add,
\* removing the item that was just added gives the cart the subtotal it had
\* before the add
NewLineAddThenRemoveRestores ==
  [][\A p \in Procs :
       (/\ RemovesTheAdded(p)
        /\ \A it \in Lines(FirstLines, lv[p].cart) : it.product # log[1].rq.product)
         => Subtotal(cartItem', lv[p].cart) = Subtotal(FirstLines, lv[p].cart)]_vars

\* product 2 was added to cart 1 and its line removed again, and the cart is
\* back at the subtotal of its first line
AddedLineRemoved ==
  /\ Len(log) = 2
  /\ log[1].rq.op = "add" /\ log[1].code = "ok" /\ log[1].rq.product = 2
  /\ log[2].rq.op = "delete" /\ log[2].code = "ok" /\ log[2].rq.item = 2
  /\ "lines" \in log[2].touched
  /\ Subtotal(cartItem, 1) = 250

\* the amount of the lines I of cart c, added up product by product: captured
\* unit price times quantity of the line of each product of P
RECURSIVE AmountByProduct(_, _, _)
AmountByProduct(I, c, P) ==
  IF P = {} THEN 0
  ELSE LET pr == CHOOSE x \in P : TRUE
           l == {it \in Lines(I, c) : it.product = pr}
       IN  (IF l = {} THEN 0
            ELSE LET it == CHOOSE x \in l : TRUE IN it.unit_price * it.quantity)
           + AmountByProduct(I, c, P \ {pr})

\* C25: in every state the subtotal of every cart is the sum over its lines of
\* the unit price captured on the line times the line's quantity, and 0 for
\* a cart without lines
SubtotalIsCapturedSum ==
  \A c \in Ids(cart) :
     /\ Subtotal(cartItem, c) = AmountByProduct(cartItem, c, Products)
     /\ Lines(cartItem, c) = {} => Subtotal(cartItem, c) = 0

\* cart 1 has two lines, one of them captured at a price that its product no
\* longer has
StalePriceInCart ==
  /\ Cardinality(Lines(cartItem, 1)) = 2
  /\ \E it \in Lines(cartItem, 1) : it.unit_price # product[it.product].price

\* C26: the step that ends an update answers ok exactly if the item is a line
\* of the resolved cart and 1 <= quantity <= the stock of its product, and
\* then that line has the requested quantity and the product's current price
\* and no other line has changed; an item that is not in the cart answers
\* not_found, a quantity below 1 bad_request, a quantity above the stock
\* insufficient_stock, and each of these leaves every line as it was
UpdateSetsOrFails ==
  [][\A p \in Procs :
       (pc[p] = "upd" /\ pc'[p] = "idle") =>
          LET rows == {it \in cartItem : it.cart = lv[p].cart /\ it.id = rq[p].item}
              item == CHOOSE it \in rows : TRUE
              qty == rq[p].quantity
              code == log'[Len(log')].code
          IN  /\ code = "ok" <=>
                   (rows # {} /\ 1 <= qty /\ qty <= product[item.product].stock_quantity)
              /\ code = "ok" =>
                   cartItem' = (cartItem \ rows) \cup
                      {[id |-> item.id, cart |-> item.cart, product |-> item.product,
                        quantity |-> qty,
                        unit_price |-> product[item.product].price]}
              /\ code # "ok" =>
                   /\ cartItem' = cartItem
                   /\ code = (IF rows = {} THEN "not_found"
                              ELSE IF qty < 1 THEN "bad_request"
                              ELSE "insufficient_stock")]_vars

\* an update has found no item, and a later one has set the quantity of a line
\* and replaced its captured price by the product's new price
UpdateOutcomesSeen ==
  /\ Len(log) = 2
  /\ log[2].rq.op = "update" /\ log[2].code = "ok"
  /\ \E it \in Lines(cartItem, 1) :
        /\ it.id = log[2].rq.item /\ it.quantity = log[2].rq.quantity
        /\ it.unit_price # 250 /\ it.unit_price = product[it.product].price
  /\ log[1].rq.op = "update" /\ log[1].code = "not_found"

\* the reason the stated order of the preconditions gives a checkout with
\* coupon code k of the lines I of cart c: empty cart, minimum order amount,
\* coupon unknown or not eligible, line above stock
FirstViolated(I, c, k) ==
  IF Lines(I, c) = {} THEN "empty"
  ELSE IF Subtotal(I, c) < MinOrderAmount THEN "min_order"
  ELSE IF k # NoCode /\ k \notin Coupons THEN "coupon_invalid"
  ELSE IF k # NoCode /\ IsApplicableToCart(coupon[k], now, I, c) # "ok"
       THEN IsApplicableToCart(coupon[k], now, I, c)
  ELSE IF ShortLines(Lines(I, c)) # {} THEN "insufficient_stock"
  ELSE "ok"

\* C27 as stated: a checkout that passes validation and fails reports the
\* reason of the first violated precondition in the stated order
FirstViolatedReported ==
  [][\A p \in Procs :
       (/\ rq[p].op = "checkout" /\ pc[p] \notin {"idle", "resolve", "co_mail"}
        /\ pc'[p] = "idle"
        /\ rq[p].user # Anon \/ GuestDataGiven(rq[p])
        /\ lv[p].cart # NoCart)
         => log'[Len(log')].code = FirstViolated(cartItem, lv[p].cart, rq[p].code)]_vars


\* ------------------------------------------------ the stock a checkout takes
RECURSIVE QuantityOf(_)
\* the units the lines rows hold
QuantityOf(rows) ==
  IF rows = {} THEN 0
  ELSE LET it == CHOOSE x \in rows : TRUE
       IN  it.quantity + QuantityOf(rows \ {it})

\* the step on which worker p's checkout commits
CheckoutCommits(p) == pc[p] = "co_finish" /\ pc'[p] = "co_mail"

\* C28 as stated: the commit of a checkout lowers the stock of every product by
\* the quantity of the cart line the order took for it, which is 0 for a
\* product the order took no line of
StockFallsByLines ==
  [][\A p \in Procs :
       CheckoutCommits(p) =>
         \A pr \in DOMAIN product :
            product'[pr].stock_quantity =
              product[pr].stock_quantity
                - QuantityOf({it \in orderItem' \ orderItem : it.product = pr})]_vars


\* ------------------------------------------------------- the retired cart
\* cart c is checked out in the table C
Retired(C, c) == \E d \in C : d.id = c /\ d.checked_out

\* C29 as stated: the commit of a checkout leaves the cart in the table,
\* checked out and without lines; a checked-out cart stays in the table, stays
\* checked out and has no lines; and no request is ever given a checked-out
\* cart as its cart
RetiredCartStaysRetired ==
  [][/\ \A p \in Procs :
          CheckoutCommits(p) =>
            Retired(cart', lv[p].cart) /\ Lines(cartItem', lv[p].cart) = {}
     /\ \A c \in cart :
          c.checked_out => Retired(cart', c.id) /\ Lines(cartItem', c.id) = {}
     /\ \A p \in Procs :
          (lv'[p].cart # lv[p].cart /\ lv'[p].cart # NoCart)
            => ~Retired(cart, lv'[p].cart)]_vars


\* ------------------------------------------------ the lines an order takes
\* the order items oi that carry the cart line it
CopiesOf(items, it) ==
  {oi \in items : /\ oi.product = it.product
                  /\ oi.quantity = it.quantity
                  /\ oi.unit_price = it.unit_price
                  /\ oi.line_total = it.unit_price * it.quantity}

\* C30: when a checkout creates the order items, it creates exactly one per
\* line the cart holds, with the line's product, quantity and captured unit
\* price and line_total = unit price x quantity, and creates no other; the
\* commit puts exactly these order items into the table
OneOrderItemPerLine ==
  [][\A p \in Procs :
       /\ (pc[p] = "co_order" /\ pc'[p] # "co_order") =>
            LET rows == Lines(ItemsOf(p), lv[p].cart)
                new == tx'[p].w.orderItems \ tx[p].w.orderItems
            IN  /\ \A it \in rows : Cardinality(CopiesOf(new, it)) = 1
                /\ Cardinality(new) = Cardinality(rows)
                /\ \A oi \in new : oi.order = nextId.order
       /\ CheckoutCommits(p) =>
            /\ orderItem' \ orderItem = tx[p].w.orderItems
            /\ orderItem \subseteq orderItem']_vars

\* an order holds a line of two units at a unit price that is no longer the
\* product's price
StalePriceOrdered ==
  \E oi \in orderItem :
     /\ oi.quantity = 2
     /\ oi.unit_price # product[oi.product].price
     /\ oi.line_total = 2 * oi.unit_price


\* ------------------------------------------------------- merge on login
\* the units of product pr among the lines rows
UnitsOf(rows, pr) == QuantityOf({it \in rows : it.product = pr})

\* every request so far is a GET of the cart, and the dashboard has edited
\* nothing: the lines of the carts change by merges only
OnlyCartReads ==
  /\ \A q \in Procs : rq[q].op \in {"none", "detail"}
  /\ \A i \in 1 .. Len(log) : log[i].rq.op = "detail"
  /\ used.edits = 0

\* C31 as stated: a merge starts only for a user whose resolved cart is empty
\* and whose token names an open guest cart with lines; when its last
\* statement ends, the user cart holds of every product the units the guest
\* cart held (it held none before), the guest cart has no line, and the guest
\* cart is still in the table and open.  Stated for the behaviours in which
\* nothing but merges changes the lines of the carts
MergeMovesEveryLineOnce ==
  [][OnlyCartReads =>
      \A p \in Procs :
       /\ (pc[p] = "res_merge" /\ pc'[p] = "merge_sel") =>
            /\ rq[p].user # Anon /\ rq[p].token # NoToken
            /\ Lines(ItemsOf(p), lv[p].cart) = {}
            /\ \E g \in OpenCarts(CartsOf(p)) :
                  /\ g.id = lv'[p].guest /\ g.guest_token = rq[p].token
                  /\ Lines(ItemsOf(p), g.id) # {}
       /\ (pc[p] = "merge_del" /\ pc'[p] # "merge_del") =>
            /\ \A pr \in DOMAIN product :
                  UnitsOf(Lines(ItemsOf(p)', lv[p].cart), pr)
                    = UnitsOf(FirstLines, pr)
            /\ Lines(ItemsOf(p)', lv[p].guest) = {}
            /\ \E g \in OpenCarts(CartsOf(p)') : g.id = lv[p].guest]_vars


\* ------------------------------------------- the last use of a coupon
\* the carts, lines and stock of InitRace; the coupon may be used once
InitLimit ==
  /\ now = 1
  /\ product = [pr \in Products |->
                  [price |-> 250,
                   stock_quantity |-> IF pr = 1 THEN RaceStock ELSE 1]]
  /\ coupon = [c \in Coupons |-> CouponRow("flat", 150, 1)]
  /\ cart = {CartRow(i, Anon) : i \in 1 .. 3}
  /\ cartItem = RaceItems
  /\ order = {}
  /\ orderItem = {}
  /\ nextId = [cart |-> 4, item |-> 4, order |-> 1]
  /\ InitProcs
  /\ InitAccounts

SpecLimit == InitLimit /\ [][NextRace]_vars

\* C32 as stated: in every reachable state, a coupon that has a usage limit
\* has been used at most that many times
TimesUsedWithinLimit ==
  \A c \in Coupons :
     coupon[c].usage_limit # Null => coupon[c].times_used <= coupon[c].usage_limit


\* ------------------------------------------------- one order per cart
\* C33 as stated: in every reachable state no two orders come from the same
\* cart
OneOrderPerCart ==
  \A o1, o2 \in order : o1.from_cart = o2.from_cart => o1.id = o2.id


\* --------------------------------------- the subtotal and the order lines
RECURSIVE SumLineTotal(_)
\* the sum of line_total over the order items rows
SumLineTotal(rows) ==
  IF rows = {} THEN 0
  ELSE LET oi == CHOOSE x \in rows : TRUE
       IN  oi.line_total + SumLineTotal(rows \ {oi})

\* C34 as stated: in every reachable state the subtotal_amount of every order
\* is the sum of the line_total of its order items
SubtotalIsSumOfOrderLines ==
  \A o \in order :
     o.subtotal_amount = SumLineTotal({oi \in orderItem : oi.order = o.id})


\* ------------------------------------------ the lines of a retired cart
\* C35 as stated: in every reachable state a checked-out cart has no line
CheckedOutCartHasNoLine ==
  \A c \in cart : c.checked_out => Lines(cartItem, c.id) = {}


\* --------------------------------------------------- the units in stock
\* C36 as stated: in every reachable state in which the dashboard has edited
\* no product, the stock of each product plus the units of it in all order
\* items is its initial stock, and the units in order items are at most the
\* initial stock
UnitsConserved ==
  used.edits = 0 =>
    \A pr \in DOMAIN product :
       /\ product[pr].stock_quantity + UnitsOf(orderItem, pr)
            = InitProduct[pr].stock_quantity
       /\ UnitsOf(orderItem, pr) <= InitProduct[pr].stock_quantity


\* ------------------------------------------------ whose cart a token names
\* two verified users; the guest cart of Init
InitOwners ==
  /\ now = 1
  /\ product = InitProduct
  /\ coupon = [c \in Coupons |-> CouponRow("flat", 150, 1)]
  /\ cart = {CartRow(1, Anon)}
  /\ cartItem = FirstLines
  /\ order = {}
  /\ orderItem = {}
  /\ nextId = [cart |-> 2, item |-> 2, order |-> 1]
  /\ InitProcs
  /\ authUser = {UserRow(1, "ann", "ann@x", TRUE, "Ann"),
                 UserRow(2, "bob", "bob@x", TRUE, "Bob")}
  /\ emailCode = {}
  /\ emailChange = {}
  /\ nextPk = [user |-> 3, code |-> 1, change |-> 1]

\* user 1 fills a cart of their own (it is cart 2, and cart_token 2 is what
\* the responses show); then requests that present token 2: without a
\* session, and in the session of user 2; and the guest's own requests
OwnerRequests ==
  {Add(1, NoToken, 1, 1), Detail(1, 1)}
  \cup {Detail(Anon, t) : t \in {1, 2}}
  \cup {Add(Anon, 2, 2, 1)}
  \cup {Detail(2, t) : t \in {NoToken, 2}}

StartOwners(p) == StartFrom(p, OwnerRequests)

NextOwners ==
  \E p \in Procs :
     \/ StartOwners(p)
     \/ ResolveUser(p)
     \/ ResolveCreate(p)
     \/ ResolveGuest(p)
     \/ ResolveMerge(p)
     \/ MergeSelect(p)
     \/ MergeUpdate(p)
     \/ MergeCreate(p)
     \/ MergeDelete(p)
     \/ CartDetail(p)
     \/ AddValidate(p)
     \/ AddGet(p)
     \/ AddSave(p)
     \/ AddCreate(p)

SpecOwners == InitOwners /\ [][NextOwners]_vars

\* the user of cart c, as request p reads the table after the step
OwnerOf(p, c) == (CHOOSE x \in CartsOf(p)' : x.id = c).user

\* C37 as stated: a request without a session is never given a cart whose
\* user is set, and a merge for a user never takes the lines of a cart whose
\* user is another user
ResolutionKeepsOwners ==
  [][\A p \in Procs :
       /\ (rq[p].user = Anon /\ lv'[p].cart # lv[p].cart /\ lv'[p].cart # NoCart)
            => OwnerOf(p, lv'[p].cart) = Anon
       /\ (lv'[p].guest # lv[p].guest /\ lv'[p].guest # NoCart)
            => OwnerOf(p, lv'[p].guest) \in {Anon, rq[p].user}]_vars

====
